---- MODULE Spec2Model ----
(***************************************************************************)
(* Bidirectional sheet <-> database synchronisation engine.                *)
(*                                                                         *)
(*   UpdateQueueService   src/src/services/updateQueue.service.js          *)
(*   DatabaseService      src/unnamed/part_004 (database.service.js)       *)
(*   SyncController       src/unnamed/part_007 (sync.controller.js)        *)
(*   WebhookController    src/src/controller/webhook.controller.js         *)
(*                                                                         *)
(* JavaScript objects are functions from property names to values, Maps    *)
(* are sequences of [key, value] records in insertion order, and every     *)
(* await is a point at which other handlers may run.                       *)
(***************************************************************************)
EXTENDS Integers, Sequences, FiniteSets, TLC

VARIABLES
    now,           \* Date.now() / the database's NOW(), in ms
    queue,         \* UpdateQueueService.queue       (Map, insertion order)
    syncLocks,     \* UpdateQueueService.syncLocks   (Map key -> expiry)
    isProcessing,  \* UpdateQueueService.isProcessing
    runs,          \* activations suspended at an await: of processQueue, and of
                   \* handleSheetChange where its store write is taken apart
    orders,        \* the orders table: ma_don_hang -> row
    echoes,        \* change notifications the sheet owes us for mirror writes
    response,      \* what the last handler call returned to its caller
    requests,      \* number of write requests received so far
    versionMap,          \* SyncQueueService.versionMap
    lastChangeTimestamp, \* SyncQueueService.lastChangeTimestamp
    pendingChanges,      \* SyncQueueService.pendingChanges (sheetName -> [changes])
    clients,       \* SSEController.clients (sheetName -> Set of responses)
    stats,         \* SSEController.stats
    conns          \* the SSE connections opened so far, what was written to them
                   \* (change events, heartbeats) and whether their heartbeat is set

\* The state of SyncQueueService (the version tracker).
trackerVars == <<versionMap, lastChangeTimestamp, pendingChanges>>

\* The state of SSEController (the broadcast hub) and of its connections.
hubVars == <<clients, stats, conns>>

vars == <<now, queue, syncLocks, isProcessing, runs, orders, echoes, response, requests,
          versionMap, lastChangeTimestamp, pendingChanges, clients, stats, conns>>

----------------------------------------------------------------------------
(* Bounds of the model.                                                    *)

\* The clock advances at most MaxTicks times (by 1 ms or by one lock window).
MaxTicks == 1

\* Write requests (client writes and sheet edits) received in one behaviour.
MaxRequests == 2

\* Business keys in use.
Keys == {"DH001", "DH002"}

\* The lock window of processQueue: Date.now() + 10000.
LOCK_WINDOW_MS == 10000

----------------------------------------------------------------------------
(* JavaScript helpers.                                                     *)

Range(s) == {s[i] : i \in DOMAIN s}

\* { ...f, ...g }: properties of g override those of f.
Spread(f, g) == [p \in DOMAIN f \cup DOMAIN g |-> IF p \in DOMAIN g THEN g[p] ELSE f[p]]

\* const { a, b, ...rest } = obj
Omit(obj, props) == [p \in DOMAIN obj \ props |-> obj[p]]

\* The empty object {}.
EmptyObject == [p \in {} |-> ""]

\* Map.has / Map.get / Map.set / Map.clear on a sequence of [key, value].
MapHas(m, k) == \E i \in DOMAIN m : m[i].key = k

MapIndex(m, k) == CHOOSE i \in DOMAIN m : m[i].key = k

MapGet(m, k) == m[MapIndex(m, k)].value

\* Map.set that adds a second entry for a key already present.
MapSet_Appends(m, k, v) == Append(m, [key |-> k, value |-> v])

MapSet(m, k, v) ==
    IF MapHas(m, k)
    THEN [m EXCEPT ![MapIndex(m, k)] = [key |-> k, value |-> v]]
    ELSE Append(m, [key |-> k, value |-> v])

MapKeys(m) == {m[i].key : i \in DOMAIN m}

----------------------------------------------------------------------------
(* Field mapping tables, each written out from its own literal.  Labels    *)
(* are written without diacritics (no two labels fall together).           *)

sheetToDbMapping ==
    ("Ma don hang" :> "ma_don_hang")
    @@ ("Ket qua Check" :> "ket_qua_check")
    @@ ("Trang thai giao hang NB" :> "trang_thai_giao_hang_nb")
    @@ ("Ma Tracking" :> "ma_tracking")
    @@ ("Ly do" :> "ly_do")
    @@ ("Trang thai thu tien" :> "trang_thai_thu_tien")
    @@ ("Ghi chu cua VD" :> "ghi_chu_vd")
    @@ ("Ngay len don" :> "ngay_len_don")
    @@ ("Name*" :> "name")
    @@ ("Phone*" :> "phone")
    @@ ("Add" :> "address")
    @@ ("City" :> "city")
    @@ ("State" :> "state")
    @@ ("khu vuc" :> "khu_vuc")
    @@ ("Zipcode" :> "zipcode")
    @@ ("Mat hang" :> "mat_hang")
    @@ ("Ten mat hang 1" :> "ten_mat_hang_1")
    @@ ("So luong mat hang 1" :> "so_luong_mat_hang_1")
    @@ ("Ten mat hang 2" :> "ten_mat_hang_2")
    @@ ("So luong mat hang 2" :> "so_luong_mat_hang_2")
    @@ ("Qua tang" :> "qua_tang")
    @@ ("So luong qua kem" :> "so_luong_qua_kem")
    @@ ("Gia ban" :> "gia_ban")
    @@ ("Loai tien thanh toan" :> "loai_tien_thanh_toan")
    @@ ("Tong tien VND" :> "tong_tien_vnd")
    @@ ("Hinh thuc thanh toan" :> "hinh_thuc_thanh_toan")
    @@ ("Ghi chu" :> "ghi_chu")
    @@ ("Ngay dong hang" :> "ngay_dong_hang")
    @@ ("Trang thai giao hang" :> "trang_thai_giao_hang")
    @@ ("Thoi gian giao du kien" :> "thoi_gian_giao_du_kien")
    @@ ("Phi ship noi dia My (usd)" :> "phi_ship_noi_dia_my")
    @@ ("Phi xu ly don dong hang-Luu kho(usd)" :> "phi_xu_ly_don")
    @@ ("GHI CHU" :> "ghi_chu_chung")
    @@ ("Nhan vien Sale" :> "nhan_vien_sale")
    @@ ("NV Van don" :> "nv_van_don")
    @@ ("Don vi van chuyen" :> "don_vi_van_chuyen")
    @@ ("So tien cua don hang da ve TK Cty" :> "so_tien_ve_tk")
    @@ ("Ke toan xac nhan thu tien ve" :> "ke_toan_xac_nhan")
    @@ ("Ngay Ke toan doi soat voi FFM lan 2" :> "ngay_doi_soat")

\* The table with the labels of the two note columns exchanged.
dbToSheetMapping_NotesSwapped ==
    ("ma_don_hang" :> "Ma don hang")
    @@ ("ket_qua_check" :> "Ket qua Check")
    @@ ("trang_thai_giao_hang_nb" :> "Trang thai giao hang NB")
    @@ ("ma_tracking" :> "Ma Tracking")
    @@ ("ly_do" :> "Ly do")
    @@ ("trang_thai_thu_tien" :> "Trang thai thu tien")
    @@ ("ghi_chu_vd" :> "Ghi chu cua VD")
    @@ ("ngay_len_don" :> "Ngay len don")
    @@ ("name" :> "Name*")
    @@ ("phone" :> "Phone*")
    @@ ("address" :> "Add")
    @@ ("city" :> "City")
    @@ ("state" :> "State")
    @@ ("khu_vuc" :> "khu vuc")
    @@ ("zipcode" :> "Zipcode")
    @@ ("mat_hang" :> "Mat hang")
    @@ ("ten_mat_hang_1" :> "Ten mat hang 1")
    @@ ("so_luong_mat_hang_1" :> "So luong mat hang 1")
    @@ ("ten_mat_hang_2" :> "Ten mat hang 2")
    @@ ("so_luong_mat_hang_2" :> "So luong mat hang 2")
    @@ ("qua_tang" :> "Qua tang")
    @@ ("so_luong_qua_kem" :> "So luong qua kem")
    @@ ("gia_ban" :> "Gia ban")
    @@ ("loai_tien_thanh_toan" :> "Loai tien thanh toan")
    @@ ("tong_tien_vnd" :> "Tong tien VND")
    @@ ("hinh_thuc_thanh_toan" :> "Hinh thuc thanh toan")
    @@ ("ghi_chu" :> "GHI CHU")
    @@ ("ngay_dong_hang" :> "Ngay dong hang")
    @@ ("trang_thai_giao_hang" :> "Trang thai giao hang")
    @@ ("thoi_gian_giao_du_kien" :> "Thoi gian giao du kien")
    @@ ("phi_ship_noi_dia_my" :> "Phi ship noi dia My (usd)")
    @@ ("phi_xu_ly_don" :> "Phi xu ly don dong hang-Luu kho(usd)")
    @@ ("ghi_chu_chung" :> "Ghi chu")
    @@ ("nhan_vien_sale" :> "Nhan vien Sale")
    @@ ("nv_van_don" :> "NV Van don")
    @@ ("don_vi_van_chuyen" :> "Don vi van chuyen")
    @@ ("so_tien_ve_tk" :> "So tien cua don hang da ve TK Cty")
    @@ ("ke_toan_xac_nhan" :> "Ke toan xac nhan thu tien ve")
    @@ ("ngay_doi_soat" :> "Ngay Ke toan doi soat voi FFM lan 2")

dbToSheetMapping ==
    ("ma_don_hang" :> "Ma don hang")
    @@ ("ket_qua_check" :> "Ket qua Check")
    @@ ("trang_thai_giao_hang_nb" :> "Trang thai giao hang NB")
    @@ ("ma_tracking" :> "Ma Tracking")
    @@ ("ly_do" :> "Ly do")
    @@ ("trang_thai_thu_tien" :> "Trang thai thu tien")
    @@ ("ghi_chu_vd" :> "Ghi chu cua VD")
    @@ ("ngay_len_don" :> "Ngay len don")
    @@ ("name" :> "Name*")
    @@ ("phone" :> "Phone*")
    @@ ("address" :> "Add")
    @@ ("city" :> "City")
    @@ ("state" :> "State")
    @@ ("khu_vuc" :> "khu vuc")
    @@ ("zipcode" :> "Zipcode")
    @@ ("mat_hang" :> "Mat hang")
    @@ ("ten_mat_hang_1" :> "Ten mat hang 1")
    @@ ("so_luong_mat_hang_1" :> "So luong mat hang 1")
    @@ ("ten_mat_hang_2" :> "Ten mat hang 2")
    @@ ("so_luong_mat_hang_2" :> "So luong mat hang 2")
    @@ ("qua_tang" :> "Qua tang")
    @@ ("so_luong_qua_kem" :> "So luong qua kem")
    @@ ("gia_ban" :> "Gia ban")
    @@ ("loai_tien_thanh_toan" :> "Loai tien thanh toan")
    @@ ("tong_tien_vnd" :> "Tong tien VND")
    @@ ("hinh_thuc_thanh_toan" :> "Hinh thuc thanh toan")
    @@ ("ghi_chu" :> "Ghi chu")
    @@ ("ngay_dong_hang" :> "Ngay dong hang")
    @@ ("trang_thai_giao_hang" :> "Trang thai giao hang")
    @@ ("thoi_gian_giao_du_kien" :> "Thoi gian giao du kien")
    @@ ("phi_ship_noi_dia_my" :> "Phi ship noi dia My (usd)")
    @@ ("phi_xu_ly_don" :> "Phi xu ly don dong hang-Luu kho(usd)")
    @@ ("ghi_chu_chung" :> "GHI CHU")
    @@ ("nhan_vien_sale" :> "Nhan vien Sale")
    @@ ("nv_van_don" :> "NV Van don")
    @@ ("don_vi_van_chuyen" :> "Don vi van chuyen")
    @@ ("so_tien_ve_tk" :> "So tien cua don hang da ve TK Cty")
    @@ ("ke_toan_xac_nhan" :> "Ke toan xac nhan thu tien ve")
    @@ ("ngay_doi_soat" :> "Ngay Ke toan doi soat voi FFM lan 2")

\* sheetToDbMapping is an object literal, so sheetToDbMapping[key] also finds
\* what every object inherits from Object.prototype: a function, which is
\* truthy and, used as a property name, turns into its source text.
objectPrototype ==
    [ n \in {"constructor", "toString"} |->
        CASE n = "constructor" -> "function Object() { [native code] }"
          [] n = "toString"    -> "function toString() { [native code] }" ]

\* sheetToDbMapping[key] || key, as the property name it is then used as.
lookupDbKey(key) ==
    IF key \in DOMAIN sheetToDbMapping THEN sheetToDbMapping[key]
    ELSE IF key \in DOMAIN objectPrototype THEN objectPrototype[key]
    ELSE key

\* Payloads are sequences of <<name, value>> in property order.
\* for (const [key, value] of Object.entries(updates))
\*     convertedUpdates[sheetToDbMapping[key] || key] = value
RECURSIVE convertUpdates(_)
convertUpdates(updates) ==
    IF updates = <<>> THEN EmptyObject
    ELSE LET n     == Len(updates)
             key   == updates[n][1]
             dbKey == lookupDbKey(key)
         IN  Spread(convertUpdates(SubSeq(updates, 1, n - 1)), (dbKey :> updates[n][2]))

\* Field sets the web client sends (the body of POST /sync/update without
\* maDonHang), and the changedFields of the sheet's notifications (onEdit
\* always sends the edited cell: { [headerRow]: e.value }).
Payloads ==
    { <<>>,
      << <<"Trang thai giao hang NB", "Huy">> >> }

SheetPayloads ==
    { << <<"Trang thai giao hang NB", "Da giao">> >> }

\* Field sets with names of every kind: a label, an internal name, a label
\* the table does not know, names that start with a digit or an underscore,
\* a label together with the internal name it translates to, a name that
\* every JavaScript object inherits, and a known label next to an unknown.
FieldSets ==
    { <<>>,
      << <<"Trang thai giao hang NB", "Huy">> >>,
      << <<"gia_ban", "100">> >>,
      << <<"Ghi chu moi", "x">> >>,
      << <<"1st_note", "x">> >>,
      << <<"_note", "x">> >>,
      << <<"Gia ban", "100">>, <<"gia_ban", "200">> >>,
      << <<"constructor", "x">> >>,
      << <<"Trang thai giao hang NB", "Da giao">>, <<"Ghi chu moi", "x">> >> }

\* Object.entries of a stored object, as a payload (one entry per property).
RECURSIVE ObjectEntries(_)
ObjectEntries(obj) ==
    IF DOMAIN obj = {} THEN <<>>
    ELSE LET p == CHOOSE q \in DOMAIN obj : TRUE
         IN  << <<p, obj[p]>> >> \o ObjectEntries(Omit(obj, {p}))

----------------------------------------------------------------------------
(* UpdateQueueService.enqueue                                              *)

\* The lock still active at the instant of its expiry.
lockActive_AtExpiry(locks, maDonHang, timestamp) ==
    /\ maDonHang \in DOMAIN locks
    /\ locks[maDonHang] # 0
    /\ locks[maDonHang] >= timestamp

\* The comparison of the expiry turned around.
lockActive_Inverted(locks, maDonHang, timestamp) ==
    /\ maDonHang \in DOMAIN locks
    /\ locks[maDonHang] # 0
    /\ locks[maDonHang] < timestamp

\* const lockExpiry = this.syncLocks.get(maDonHang);
\* lockExpiry && lockExpiry > timestamp
lockActive(locks, maDonHang, timestamp) ==
    /\ maDonHang \in DOMAIN locks
    /\ locks[maDonHang] # 0
    /\ locks[maDonHang] > timestamp

\* The comparison made on the stored stamp, and not strict: a tie rejects.
existingIsNewer_OrSame(existing, timestamp) ==
    existing["_timestamp"] >= timestamp

\* existing.timestamp > timestamp.  The pending entry stores its stamp under
\* `_timestamp`; the property `timestamp` exists only when the payload itself
\* carried a field of that name, and (undefined > n) is false.
existingIsNewer(existing, timestamp) ==
    /\ "timestamp" \in DOMAIN existing
    /\ existing["timestamp"] > timestamp

\* existing.source, read the same way.
existingSource(existing) ==
    IF "source" \in DOMAIN existing THEN existing["source"] ELSE "undefined"

\* { ma_don_hang: maDonHang, ...convertedUpdates, _source, _timestamp }
\* (_queuedAt is the same instant as an ISO string and is never read.)
pendingUpdate(maDonHang, convertedUpdates, source, timestamp) ==
    Spread(Spread(("ma_don_hang" :> maDonHang), convertedUpdates),
           ("_source" :> source @@ "_timestamp" :> timestamp))

Verdict(q, c, w) == [queued |-> q, conflict |-> c, winner |-> w]

\* enqueue that starts the queue afresh with the incoming update.
enqueue_ResetsQueue(q, locks, maDonHang, updates, source, timestamp) ==
    IF source = "sheet" /\ lockActive(locks, maDonHang, timestamp)
    THEN [queue |-> q, result |-> Verdict(FALSE, FALSE, "none")]
    ELSE IF MapHas(q, maDonHang) /\ existingIsNewer(MapGet(q, maDonHang), timestamp)
    THEN [queue |-> q,
          result |-> Verdict(FALSE, TRUE, existingSource(MapGet(q, maDonHang)))]
    ELSE [queue |-> MapSet(<<>>, maDonHang,
                           pendingUpdate(maDonHang, convertUpdates(updates), source, timestamp)),
          result |-> Verdict(TRUE, FALSE, "none")]

\* enqueue that merges the incoming fields into the pending entry.
enqueue_Merges(q, locks, maDonHang, updates, source, timestamp) ==
    IF source = "sheet" /\ lockActive(locks, maDonHang, timestamp)
    THEN [queue |-> q, result |-> Verdict(FALSE, FALSE, "none")]
    ELSE IF MapHas(q, maDonHang) /\ existingIsNewer(MapGet(q, maDonHang), timestamp)
    THEN [queue |-> q,
          result |-> Verdict(FALSE, TRUE, existingSource(MapGet(q, maDonHang)))]
    ELSE [queue |-> MapSet(q, maDonHang,
                           Spread(IF MapHas(q, maDonHang) THEN MapGet(q, maDonHang)
                                  ELSE EmptyObject,
                                  pendingUpdate(maDonHang, convertUpdates(updates), source,
                                                timestamp))),
          result |-> Verdict(TRUE, FALSE, "none")]

\* enqueue(maDonHang, updates, source) called at Date.now() = timestamp:
\* the queue afterwards and the returned verdict.
enqueue(q, locks, maDonHang, updates, source, timestamp) ==
    IF source = "sheet" /\ lockActive(locks, maDonHang, timestamp)
    THEN [queue |-> q, result |-> Verdict(FALSE, FALSE, "none")]
    ELSE IF MapHas(q, maDonHang) /\ existingIsNewer(MapGet(q, maDonHang), timestamp)
    THEN [queue |-> q,
          result |-> Verdict(FALSE, TRUE, existingSource(MapGet(q, maDonHang)))]
    ELSE [queue |-> MapSet(q, maDonHang,
                           pendingUpdate(maDonHang, convertUpdates(updates), source, timestamp)),
          result |-> Verdict(TRUE, FALSE, "none")]

\* The pending entry of a key before a call, as a 0- or 1-element sequence.
Pending(q, k) == IF MapHas(q, k) THEN <<MapGet(q, k)>> ELSE <<>>

----------------------------------------------------------------------------
(* DatabaseService.upsertOrder                                             *)

Letters ==
    {"a", "b", "c", "d", "e", "f", "g", "h", "i", "j", "k", "l", "m",
     "n", "o", "p", "q", "r", "s", "t", "u", "v", "w", "x", "y", "z",
     "A", "B", "C", "D", "E", "F", "G", "H", "I", "J", "K", "L", "M",
     "N", "O", "P", "Q", "R", "S", "T", "U", "V", "W", "X", "Y", "Z"}

Digits == {"0", "1", "2", "3", "4", "5", "6", "7", "8", "9"}

\* The i-th character of a name.
CharAt(col, i) == SubSeq(col, i, i)

\* The test that lets a leading digit through.
IsSqlIdentifier_AnyStart(col) ==
    /\ Len(col) >= 1
    /\ \A i \in 1..Len(col) : CharAt(col, i) \in Letters \cup Digits \cup {"_"}

\* /^[a-zA-Z_][a-zA-Z0-9_]*$/.test(col)
IsSqlIdentifier(col) ==
    /\ Len(col) >= 1
    /\ CharAt(col, 1) \in Letters \cup {"_"}
    /\ \A i \in 2..Len(col) : CharAt(col, i) \in Letters \cup Digits \cup {"_"}

\* col.startsWith('_')
StartsWithUnderscore(col) == Len(col) >= 1 /\ CharAt(col, 1) = "_"

\* The property names the objects passed to upsertOrder can have: the key,
\* the queue's own properties, and every name a request's field set carries,
\* as enqueue or handleSheetChange hands it on.
ColumnNames ==
    {"ma_don_hang", "updated_at", "_source", "_timestamp", "_queuedAt"}
    \cup UNION {DOMAIN convertUpdates(p) : p \in Payloads \cup SheetPayloads \cup FieldSets}
    \cup {sheetToDbMapping[l] : l \in DOMAIN sheetToDbMapping}

\* The names among them that the filter of upsertOrder lets through.
SqlIdentifiers ==
    {col \in ColumnNames : ~StartsWithUnderscore(col) /\ IsSqlIdentifier(col)}

\* Object.keys(orderData).filter(col => !col.startsWith('_') && /.../.test(col))
validColumns(orderData) == {col \in DOMAIN orderData : col \in SqlIdentifiers}

\* EXCLUDED: the row proposed for insertion; updated_at TIMESTAMP DEFAULT NOW().
excludedRow(orderData, t) ==
    Spread(("updated_at" :> t), [c \in validColumns(orderData) |-> orderData[c]])

\* The WHERE clause on every source, and strict.
conflictUpdateApplies_Strict(stored, excluded, source) ==
    stored["updated_at"] < excluded["updated_at"]

\* WHERE orders.updated_at <= EXCLUDED.updated_at OR EXCLUDED.updated_at IS NULL
\* (sheet source only; web updates carry no WHERE clause).
conflictUpdateApplies(stored, excluded, source) ==
    source # "sheet" \/ stored["updated_at"] <= excluded["updated_at"]

\* The statement's effect on the table and the value upsertOrder returns
\* (result.rows[0], or null), as a 0- or 1-element sequence.
upsertOrder(tbl, orderData, source, t) ==
    LET columns       == validColumns(orderData)
        updateColumns == columns \ {"ma_don_hang"}
        key           == orderData["ma_don_hang"]
        excluded      == excludedRow(orderData, t)
        inserted      == (key :> excluded) @@ tbl
        updated       == (key :> Spread(tbl[key],
                                 Spread([c \in updateColumns |-> excluded[c]],
                                        ("updated_at" :> t)))) @@ tbl
    IN  IF columns = {} \/ updateColumns = {}
        THEN [orders |-> tbl, row |-> <<>>]
        ELSE IF key \notin DOMAIN tbl
        THEN [orders |-> inserted, row |-> <<inserted[key]>>]
        ELSE IF conflictUpdateApplies(tbl[key], excluded, source)
        THEN [orders |-> updated, row |-> <<updated[key]>>]
        ELSE [orders |-> tbl, row |-> <<>>]

----------------------------------------------------------------------------
(* UpdateQueueService.syncToSheet and processQueue                         *)

\* sheetUpdate without primaryKey: the mapped columns under their labels.
sheetUpdate(orderData) ==
    LET cols == {c \in DOMAIN orderData \ {"ma_don_hang"} : c \in DOMAIN dbToSheetMapping}
    IN  [l \in {dbToSheetMapping[c] : c \in cols} |->
            orderData[CHOOSE c \in cols : dbToSheetMapping[c] = l]]

\* const { _source, _timestamp, _queuedAt, ...orderData } = update
orderDataOf(update) == Omit(update, {"_source", "_timestamp", "_queuedAt"})

\* The mirror for every applied update, whatever its source.
mirrorsToSheet_AnySource(source, dbResult) == dbResult

\* if (_source === 'web' && dbResult)
mirrorsToSheet(source, dbResult) == source = "web" /\ dbResult

\* The guard without the in-progress flag.
processQueueReturnsEarly_NoFlag(processing, q) == Len(q) = 0

\* if (this.isProcessing || this.queue.size === 0) return;
processQueueReturnsEarly(processing, q) == processing \/ Len(q) = 0

\* The re-queue without the has() test: the failed batch overwrites.
RECURSIVE requeue_Overwrites(_, _)
requeue_Overwrites(q, toProcess) ==
    IF toProcess = <<>> THEN q
    ELSE requeue_Overwrites(MapSet(q, Head(toProcess).key, Head(toProcess).value),
                            Tail(toProcess))

\* No re-queue at all: the failed batch is dropped.
requeue_Drops(q, toProcess) == q

\* for (const [key, value] of toProcess)
\*     if (!this.queue.has(key)) this.queue.set(key, value);
RECURSIVE requeue(_, _)
requeue(q, toProcess) ==
    IF toProcess = <<>> THEN q
    ELSE LET e == Head(toProcess)
         IN  requeue(IF ~MapHas(q, e.key) THEN MapSet(q, e.key, e.value) ELSE q,
                     Tail(toProcess))

\* The lock set to the current instant, without the window.
armLock_NoWindow(locks, maDonHang, t) == (maDonHang :> t) @@ locks

\* this.syncLocks.set(orderData.ma_don_hang, Date.now() + 10000)
armLock(locks, maDonHang, t) == (maDonHang :> t + LOCK_WINDOW_MS) @@ locks

RemoveAt(s, j) == SubSeq(s, 1, j - 1) \o SubSeq(s, j + 1, Len(s))

\* The update a suspended activation is working on.
CurrentUpdate(r) == r.toProcess[r.i].value

\* No call of enqueue for the key directly precedes this one.
NoVerdict == Verdict(FALSE, FALSE, "no call")

\* How the stamp of the pending entry of a key compares with a new stamp.
StampOrder(q, k, timestamp) ==
    IF ~MapHas(q, k) THEN "none"
    ELSE IF MapGet(q, k)["_timestamp"] < timestamp THEN "older"
    ELSE IF MapGet(q, k)["_timestamp"] = timestamp THEN "same"
    ELSE "newer"

\* An echo issued at issuedAt arrives within the suppression window.
InWindow(issuedAt) == now < issuedAt + LOCK_WINDOW_MS

\* The properties of the pending entry of a key that the entry of the key in
\* the queue after a call no longer has.
DroppedFields(q, k, after) ==
    IF MapHas(q, k) /\ MapHas(after, k)
    THEN DOMAIN MapGet(q, k) \ DOMAIN MapGet(after, k)
    ELSE {}

\* What a handler reports about a call of enqueue.
EnqueueResponse(k, updates, source, echo, issuedAt) ==
    [op |-> "enqueue", key |-> k, source |-> source, echo |-> echo,
     inWindow |-> InWindow(issuedAt),
     existing |-> StampOrder(queue, k, now),
     dropped |-> DroppedFields(queue, k, enqueue(queue, syncLocks, k, updates, source, now).queue),
     prior |-> IF response.op = "enqueue" /\ response.key = k
               THEN response.result ELSE NoVerdict,
     result |-> enqueue(queue, syncLocks, k, updates, source, now).result]

----------------------------------------------------------------------------
(* WebhookController.handleSheetChange                                     *)

\* The controller's own copy of the label table (it also knows "Khu vuc" with
\* a capital and "Team").
webhookSheetToDbMapping ==
    ("Ma don hang" :> "ma_don_hang")
    @@ ("Ket qua Check" :> "ket_qua_check")
    @@ ("Trang thai giao hang NB" :> "trang_thai_giao_hang_nb")
    @@ ("Ma Tracking" :> "ma_tracking")
    @@ ("Ly do" :> "ly_do")
    @@ ("Trang thai thu tien" :> "trang_thai_thu_tien")
    @@ ("Ghi chu cua VD" :> "ghi_chu_vd")
    @@ ("Ngay len don" :> "ngay_len_don")
    @@ ("Name*" :> "name")
    @@ ("Phone*" :> "phone")
    @@ ("Add" :> "address")
    @@ ("City" :> "city")
    @@ ("State" :> "state")
    @@ ("khu vuc" :> "khu_vuc")
    @@ ("Zipcode" :> "zipcode")
    @@ ("Mat hang" :> "mat_hang")
    @@ ("Ten mat hang 1" :> "ten_mat_hang_1")
    @@ ("So luong mat hang 1" :> "so_luong_mat_hang_1")
    @@ ("Ten mat hang 2" :> "ten_mat_hang_2")
    @@ ("So luong mat hang 2" :> "so_luong_mat_hang_2")
    @@ ("Qua tang" :> "qua_tang")
    @@ ("So luong qua kem" :> "so_luong_qua_kem")
    @@ ("Gia ban" :> "gia_ban")
    @@ ("Loai tien thanh toan" :> "loai_tien_thanh_toan")
    @@ ("Tong tien VND" :> "tong_tien_vnd")
    @@ ("Hinh thuc thanh toan" :> "hinh_thuc_thanh_toan")
    @@ ("Ghi chu" :> "ghi_chu")
    @@ ("Ngay dong hang" :> "ngay_dong_hang")
    @@ ("Trang thai giao hang" :> "trang_thai_giao_hang")
    @@ ("Thoi gian giao du kien" :> "thoi_gian_giao_du_kien")
    @@ ("Phi ship noi dia My (usd)" :> "phi_ship_noi_dia_my")
    @@ ("Phi xu ly don dong hang-Luu kho(usd)" :> "phi_xu_ly_don")
    @@ ("GHI CHU" :> "ghi_chu_chung")
    @@ ("Nhan vien Sale" :> "nhan_vien_sale")
    @@ ("NV Van don" :> "nv_van_don")
    @@ ("Don vi van chuyen" :> "don_vi_van_chuyen")
    @@ ("So tien cua don hang da ve TK Cty" :> "so_tien_ve_tk")
    @@ ("Ke toan xac nhan thu tien ve" :> "ke_toan_xac_nhan")
    @@ ("Ngay Ke toan doi soat voi FFM lan 2" :> "ngay_doi_soat")
    @@ ("Team" :> "team")
    @@ ("Khu vuc" :> "khu_vuc")

STATUS_COLUMNS == {"ket_qua_check", "trang_thai_giao_hang_nb", "trang_thai_thu_tien"}

\* value.normalize('NFC').toLowerCase().trim() on the values in use.
normalizeStatus(value) == IF value = "Huy" THEN "huy" ELSE value

normalizeValue(value, dbColumn) ==
    IF dbColumn \in STATUS_COLUMNS THEN normalizeStatus(value) ELSE value

\* const dbUpdate = { ma_don_hang: primaryKey }; for each [sheetCol, value]:
\*     if (dbCol && value !== undefined && value !== '') dbUpdate[dbCol] = ...
RECURSIVE dbUpdateOf(_, _)
dbUpdateOf(primaryKey, dataSource) ==
    IF dataSource = <<>> THEN ("ma_don_hang" :> primaryKey)
    ELSE LET n        == Len(dataSource)
             sheetCol == dataSource[n][1]
             value    == dataSource[n][2]
             rest     == dbUpdateOf(primaryKey, SubSeq(dataSource, 1, n - 1))
         IN  IF sheetCol \in DOMAIN webhookSheetToDbMapping /\ value # ""
             THEN Spread(rest, (webhookSheetToDbMapping[sheetCol] :>
                                  normalizeValue(value, webhookSheetToDbMapping[sheetCol])))
             ELSE rest

----------------------------------------------------------------------------
(* SyncQueueService: version tracking and the change buffer for polling.   *)

\* addPendingChange: if (changes.length >= 100) changes.shift()
MAX_PENDING_CHANGES == 100

\* cleanup(maxAgeMs = 300000), run every 300000 ms
MAX_AGE_MS == 300000

primaryKeyNames == <<"MaVanDon", "id", "ID", "primaryKey", "key">>

\* The first of the common key names the object has a truthy value for, as
\* `${name}:${value}`; 'unknown' for an object without properties.  (For an
\* object with properties but none of these names the code takes its first
\* property; the objects of this model all carry primaryKey.)
getPrimaryKey(updateData) ==
    LET hits == {i \in DOMAIN primaryKeyNames :
                    /\ primaryKeyNames[i] \in DOMAIN updateData
                    /\ updateData[primaryKeyNames[i]] # ""}
        first == CHOOSE i \in hits : \A h \in hits : i <= h
        keys0 == CHOOSE q \in DOMAIN updateData : TRUE
    IN  IF DOMAIN updateData = {} THEN <<"unknown">>
        ELSE IF hits # {} THEN <<primaryKeyNames[first], updateData[primaryKeyNames[first]]>>
        ELSE <<keys0, updateData[keys0]>>

\* this.versionMap.get(`${sheetName}:${primaryKey}`) || 0
getVersion(vm, sheetName, primaryKey) ==
    IF <<sheetName, primaryKey>> \in DOMAIN vm THEN vm[<<sheetName, primaryKey>>] ELSE 0

\* setVersion: both maps afterwards.
setVersion(vm, lct, sheetName, primaryKey, version) ==
    [versionMap |-> (<<sheetName, primaryKey>> :> version) @@ vm,
     lastChangeTimestamp |-> (sheetName :> version) @@ lct]

\* The buffer of a sheet: this.pendingChanges.get(sheetName) || []
changesOf(pc, sheetName) == IF sheetName \in DOMAIN pc THEN pc[sheetName] ELSE <<>>

\* A full buffer drops its newest entry instead of its oldest.
addPendingChange_DropsNewest(pc, sheetName, change) ==
    LET changes == changesOf(pc, sheetName)
        kept    == IF Len(changes) >= MAX_PENDING_CHANGES
                   THEN SubSeq(changes, 1, Len(changes) - 1) ELSE changes
    IN  (sheetName :> Append(kept, change)) @@ pc

\* addPendingChange: shift the oldest out of a full buffer, then push.
addPendingChange(pc, sheetName, change) ==
    LET changes == changesOf(pc, sheetName)
        kept    == IF Len(changes) >= MAX_PENDING_CHANGES THEN Tail(changes) ELSE changes
    IN  (sheetName :> Append(kept, change)) @@ pc

\* The filter with >= instead of >.
getChangesSince_Inclusive(pc, sheetName, sinceTimestamp) ==
    SelectSeq(changesOf(pc, sheetName), LAMBDA c : c["_version"] >= sinceTimestamp)

\* changes.filter(c => c._version > sinceTimestamp)
getChangesSince(pc, sheetName, sinceTimestamp) ==
    SelectSeq(changesOf(pc, sheetName), LAMBDA c : c["_version"] > sinceTimestamp)

\* this.lastChangeTimestamp.get(sheetName) || 0
getLastChangeTimestamp(lct, sheetName) ==
    IF sheetName \in DOMAIN lct THEN lct[sheetName] ELSE 0

\* recordExternalChange at Date.now() = t: the three maps afterwards and the
\* returned version.  (_updatedAt is the same instant as an ISO string.)
recordExternalChange(vm, lct, pc, sheetName, changeData, t) ==
    LET primaryKey == getPrimaryKey(changeData)
        version    == t
        set        == setVersion(vm, lct, sheetName, primaryKey, version)
    IN  [versionMap |-> set.versionMap,
         lastChangeTimestamp |-> set.lastChangeTimestamp,
         pendingChanges |->
             addPendingChange(pc, sheetName,
                 Spread(changeData, ("_version" :> version @@ "_external" :> TRUE))),
         version |-> version]

\* cleanup(): every buffer keeps the entries with _version > Date.now() - maxAgeMs.
cleanup(pc, t) ==
    [sheetName \in DOMAIN pc |->
        SelectSeq(pc[sheetName], LAMBDA c : c["_version"] > t - MAX_AGE_MS)]

----------------------------------------------------------------------------
(* SSEController: the registry of subscribers and broadcast.               *)

\* this.clients.get(sheetName), as a set (empty when the Map has no entry).
clientSetOf(cl, sheetName) == IF sheetName \in DOMAIN cl THEN cl[sheetName] ELSE {}

\* addClient that counts the connection without putting it into the set.
addClient_CountsOnly(cl, st, sheetName, res) ==
    [clients |-> cl,
     stats   |-> [st EXCEPT !.totalConnections = @ + 1, !.activeConnections = @ + 1]]

\* addClient: the registry and the stats afterwards.
addClient(cl, st, sheetName, res) ==
    [clients |-> (sheetName :> (clientSetOf(cl, sheetName) \cup {res})) @@ cl,
     stats   |-> [st EXCEPT !.totalConnections = @ + 1, !.activeConnections = @ + 1]]

\* removeClient that leaves the connection in the set.
removeClient_KeepsClient(cl, st, sheetName, res) ==
    IF sheetName \in DOMAIN cl
    THEN [clients |-> cl, stats |-> [st EXCEPT !.activeConnections = @ - 1]]
    ELSE [clients |-> cl, stats |-> st]

\* removeClient: when the sheet has a set, delete the connection from it,
\* decrement activeConnections, and delete the set when it became empty.
removeClient(cl, st, sheetName, res) ==
    IF sheetName \in DOMAIN cl
    THEN LET clientSet == cl[sheetName] \ {res}
         IN  [clients |-> IF clientSet = {} THEN Omit(cl, {sheetName})
                          ELSE (sheetName :> clientSet) @@ cl,
              stats   |-> [st EXCEPT !.activeConnections = @ - 1]]
    ELSE [clients |-> cl, stats |-> st]

\* deadClients.forEach(client => this.removeClient(sheetName, client))
RECURSIVE removeClients(_, _, _, _)
removeClients(cl, st, sheetName, deadClients) ==
    IF deadClients = {} THEN [clients |-> cl, stats |-> st]
    ELSE LET client == CHOOSE c \in deadClients : TRUE
             one    == removeClient(cl, st, sheetName, client)
         IN  removeClients(one.clients, one.stats, sheetName, deadClients \ {client})

\* broadcast that creates the sheet's set when the registry has none.
broadcast_CreatesSet(cl, st, sheetName, failing) ==
    LET clientSet   == clientSetOf(cl, sheetName)
        written     == clientSet \ failing
        deadClients == clientSet \cap failing
        sent        == [st EXCEPT !.messagesSent = @ + Cardinality(written)]
        cleaned     == removeClients(cl, sent, sheetName, deadClients)
    IN  IF clientSet = {}
        THEN [clients |-> (sheetName :> {}) @@ cl, stats |-> st, written |-> {},
              successCount |-> 0]
        ELSE [clients |-> cleaned.clients, stats |-> cleaned.stats,
              written |-> written, successCount |-> Cardinality(written)]

\* broadcast in which the first failed write ends the delivery.
broadcast_AbortsOnError(cl, st, sheetName, failing) ==
    LET clientSet == clientSetOf(cl, sheetName)
        written   == IF clientSet \cap failing = {} THEN clientSet ELSE {}
    IN  [clients |-> cl,
         stats   |-> [st EXCEPT !.messagesSent = @ + Cardinality(written)],
         written |-> written,
         successCount |-> Cardinality(written)]

\* broadcast that writes to the subscribers of every sheet.
broadcast_ToAll(cl, st, sheetName, failing) ==
    LET everyone == UNION {cl[s] : s \in DOMAIN cl}
        written  == everyone \ failing
    IN  [clients |-> cl,
         stats   |-> [st EXCEPT !.messagesSent = @ + Cardinality(written)],
         written |-> written,
         successCount |-> Cardinality(written)]

\* broadcast(sheetName, data), the writes to the connections in `failing`
\* throwing: the registry and the stats afterwards, the connections written
\* to, and the returned count.
broadcast(cl, st, sheetName, failing) ==
    LET clientSet   == clientSetOf(cl, sheetName)
        written     == clientSet \ failing
        deadClients == clientSet \cap failing
        sent        == [st EXCEPT !.messagesSent = @ + Cardinality(written)]
        cleaned     == removeClients(cl, sent, sheetName, deadClients)
    IN  IF clientSet = {}
        THEN [clients |-> cl, stats |-> st, written |-> {}, successCount |-> 0]
        ELSE [clients |-> cleaned.clients, stats |-> cleaned.stats,
              written |-> written, successCount |-> Cardinality(written)]

\* The change events written to the connections in `written`.
Deliver(cs, written) ==
    [c \in DOMAIN cs |-> IF c \in written THEN [cs[c] EXCEPT !.writes = @ + 1] ELSE cs[c]]

\* getStats: { ...this.stats, clientsBySheet }
getStats(cl, st) ==
    [stats |-> st, clientsBySheet |-> [s \in DOMAIN cl |-> Cardinality(cl[s])]]

----------------------------------------------------------------------------
(* Request validation in the controllers.                                  *)

\* The validation that lets every value through.
isMissing_Never(value) == FALSE

\* !primaryKey, !maDonHang, !sheetName: the property is absent or empty (an
\* edit in a row whose key cell is empty sends primaryKey: '').
isMissing(value) == value = ""

\* res.status(400).json({ success: false, ... })
ValidationError(handler) == [op |-> "validationError", handler |-> handler, status |-> 400]

----------------------------------------------------------------------------
(* The state machine.                                                      *)

Init ==
    /\ now = 0
    /\ queue = <<>>
    /\ syncLocks = EmptyObject
    /\ isProcessing = FALSE
    /\ runs = <<>>
    /\ orders = EmptyObject
    /\ echoes = {}
    /\ response = [op |-> "none"]
    /\ requests = 0
    /\ versionMap = EmptyObject
    /\ lastChangeTimestamp = EmptyObject
    /\ pendingChanges = EmptyObject
    /\ clients = EmptyObject
    /\ stats = [totalConnections |-> 0, activeConnections |-> 0, messagesSent |-> 0]
    /\ conns = EmptyObject

\* Number of clock steps taken to reach time t.
Ticks(t) == (t % LOCK_WINDOW_MS) + (t \div LOCK_WINDOW_MS)

\* Time passes: one millisecond, or one lock window.
Tick ==
    /\ \E d \in {1, LOCK_WINDOW_MS} :
          /\ Ticks(now) < MaxTicks
          /\ now' = now + d
    /\ UNCHANGED <<trackerVars, hubVars, queue, syncLocks, isProcessing, runs, orders, echoes,
                   response, requests>>

\* SyncController.queueUpdate: POST /sync/update from the web client.
QueueUpdate(maDonHang, updates) ==
    /\ IF isMissing(maDonHang)
       THEN /\ response' = ValidationError("queueUpdate")
            /\ UNCHANGED queue
       ELSE /\ queue' = enqueue(queue, syncLocks, maDonHang, updates, "web", now).queue
            /\ response' = EnqueueResponse(maDonHang, updates, "web", FALSE, now)
    /\ requests < MaxRequests
    /\ requests' = requests + 1
    /\ UNCHANGED <<trackerVars, hubVars, now, syncLocks, isProcessing, runs, orders, echoes>>

\* SyncController.webhookSync: POST /sync/webhook, an edit made in the sheet.
WebhookSync(primaryKey, changedFields) ==
    /\ IF isMissing(primaryKey)
       THEN /\ response' = ValidationError("webhookSync")
            /\ UNCHANGED queue
       ELSE /\ queue' = enqueue(queue, syncLocks, primaryKey, changedFields, "sheet", now).queue
            /\ response' = EnqueueResponse(primaryKey, changedFields, "sheet", FALSE, now)
    /\ requests < MaxRequests
    /\ requests' = requests + 1
    /\ UNCHANGED <<trackerVars, hubVars, now, syncLocks, isProcessing, runs, orders, echoes>>

\* The same route, delivering the notification of one of our own mirror writes.
EchoWebhookSync(e) ==
    /\ queue' = enqueue(queue, syncLocks, e.primaryKey, e.changedFields, "sheet", now).queue
    /\ response' = EnqueueResponse(e.primaryKey, e.changedFields, "sheet", TRUE, e.issuedAt)
    /\ echoes' = echoes \ {e}
    /\ UNCHANGED <<trackerVars, hubVars, now, syncLocks, isProcessing, runs, orders, requests>>

\* Changes recorded through the webhook in one behaviour.
MaxHookChanges == 1

\* handleSheetChange: POST /webhook/sheet-change.  The handler writes the
\* store itself (a store error is caught and logged), records the change in
\* the version tracker and broadcasts it; the writes to `failing` throw.
SheetChange(sheetName, primaryKey, dataSource, echo, issuedAt, dbFails, failing) ==
    LET dbUpdate   == dbUpdateOf(primaryKey, dataSource)
        done       == upsertOrder(orders, dbUpdate, "sheet", now)
        attempt    == Len(dataSource) > 0
        changeData == [sheetName |-> sheetName, primaryKey |-> primaryKey,
                       changedFields |-> dataSource]
        recorded   == recordExternalChange(versionMap, lastChangeTimestamp, pendingChanges,
                                           sheetName, changeData, now)
        sent       == broadcast(clients, stats, sheetName, failing)
    IN  IF isMissing(sheetName) \/ isMissing(primaryKey)
        THEN /\ response' = ValidationError("handleSheetChange")
             /\ UNCHANGED <<orders, trackerVars, hubVars>>
        ELSE /\ Len(changesOf(pendingChanges, sheetName)) < MaxHookChanges
             /\ failing \subseteq clientSetOf(clients, sheetName)
             /\ orders' = IF attempt /\ ~dbFails THEN done.orders ELSE orders
             /\ versionMap' = recorded.versionMap
             /\ lastChangeTimestamp' = recorded.lastChangeTimestamp
             /\ pendingChanges' = recorded.pendingChanges
             /\ clients' = sent.clients
             /\ stats' = sent.stats
             /\ conns' = Deliver(conns, sent.written)
             /\ response' = [op |-> "handleSheetChange", key |-> primaryKey, echo |-> echo,
                             inWindow |-> InWindow(issuedAt),
                             dbUpdated |-> attempt /\ ~dbFails,
                             applied |-> attempt /\ ~dbFails /\ done.row # <<>>,
                             version |-> recorded.version,
                             clientsNotified |-> sent.successCount]

HandleSheetChange(sheetName, primaryKey, dataSource, dbFails, failing) ==
    /\ SheetChange(sheetName, primaryKey, dataSource, FALSE, now, dbFails, failing)
    /\ UNCHANGED <<now, queue, syncLocks, isProcessing, runs, echoes, requests>>

\* The same handler, called for the notification of one of our own mirror
\* writes (syncToSheet writes to sheet F3).
EchoSheetChange(e, dbFails, failing) ==
    /\ SheetChange("F3", e.primaryKey, e.changedFields, TRUE, e.issuedAt, dbFails, failing)
    /\ echoes' = echoes \ {e}
    /\ UNCHANGED <<now, queue, syncLocks, isProcessing, runs, requests>>

----------------------------------------------------------------------------
(* processQueue, from its call to each of its awaits.                      *)

\* processQueue without this.queue.clear().
processQueue_NoClear(by) ==
    IF processQueueReturnsEarly(isProcessing, queue)
    THEN /\ response' = [op |-> "processQueue", by |-> by, started |-> FALSE,
                         busy |-> isProcessing]
         /\ UNCHANGED <<trackerVars, hubVars, now, queue, syncLocks, isProcessing, runs, orders, echoes, requests>>
    ELSE /\ isProcessing' = TRUE
         /\ runs' = Append(runs, [toProcess |-> queue, pc |-> "connect", i |-> 1,
                                  landed |-> FALSE])
         /\ response' = [op |-> "processQueue", by |-> by, started |-> TRUE,
                         busy |-> isProcessing]
         /\ UNCHANGED <<trackerVars, hubVars, now, queue, syncLocks, orders, echoes, requests>>

\* Lines 158-166: the guard, the snapshot and the clear, up to the first await.
processQueue(by) ==
    IF processQueueReturnsEarly(isProcessing, queue)
    THEN /\ response' = [op |-> "processQueue", by |-> by, started |-> FALSE,
                         busy |-> isProcessing]
         /\ UNCHANGED <<trackerVars, hubVars, now, queue, syncLocks, isProcessing, runs, orders, echoes, requests>>
    ELSE /\ isProcessing' = TRUE
         /\ runs' = Append(runs, [toProcess |-> queue, pc |-> "connect", i |-> 1,
                                  landed |-> FALSE])
         /\ queue' = <<>>
         /\ response' = [op |-> "processQueue", by |-> by, started |-> TRUE,
                         busy |-> isProcessing]
         /\ UNCHANGED <<trackerVars, hubVars, now, syncLocks, orders, echoes, requests>>

\* setInterval(() => this.processQueue(), BATCH_INTERVAL_MS)
TimerTick == processQueue("timer")

\* flush(): POST /sync/flush-queue
ForceFlush == processQueue("flush")

\* The loop moves to the next update, or falls out of the try into finally.
Continue(j) ==
    IF runs[j].i < Len(runs[j].toProcess)
    THEN /\ runs' = [runs EXCEPT ![j].i = @ + 1, ![j].pc = "upsertOrder",
                                 ![j].landed = FALSE]
         /\ UNCHANGED isProcessing
    ELSE /\ runs' = RemoveAt(runs, j)
         /\ isProcessing' = FALSE

\* await databaseService.connect() returns (it catches its own errors).
ConnectReturn(j) ==
    /\ runs[j].pc = "connect"
    /\ runs' = [runs EXCEPT ![j].pc = "upsertOrder"]
    /\ UNCHANGED <<trackerVars, hubVars, now, queue, syncLocks, isProcessing, orders, echoes, response, requests>>

\* await databaseService.upsertOrder(...) returns a row or null.
UpsertReturn(j) ==
    /\ runs[j].pc = "upsertOrder"
    /\ LET update    == CurrentUpdate(runs[j])
           orderData == orderDataOf(update)
           done      == upsertOrder(orders, orderData, update["_source"], now)
           dbResult  == done.row # <<>>
       IN  /\ orders' = done.orders
           /\ response' = [op |-> "upsertOrder", entry |-> runs[j].toProcess[runs[j].i],
                           hadRow |-> orderData["ma_don_hang"] \in DOMAIN orders,
                           dbResult |-> dbResult]
           /\ IF mirrorsToSheet(update["_source"], dbResult)
              THEN \* await this.syncToSheet('F3', orderData)
                   /\ runs' = [runs EXCEPT ![j].pc = "syncToSheet"]
                   /\ UNCHANGED isProcessing
              ELSE Continue(j)
    /\ UNCHANGED <<trackerVars, hubVars, now, queue, syncLocks, echoes, requests>>

\* await databaseService.upsertOrder(...) throws: the catch block re-queues
\* and finally clears the flag.
UpsertThrows(j) ==
    /\ runs[j].pc = "upsertOrder"
    /\ queue' = requeue(queue, runs[j].toProcess)
    /\ isProcessing' = FALSE
    /\ runs' = RemoveAt(runs, j)
    /\ response' = [op |-> "catch", key |-> runs[j].toProcess[runs[j].i].key,
                    i |-> runs[j].i,
                    live |-> StampOrder(queue, runs[j].toProcess[runs[j].i].key,
                                        CurrentUpdate(runs[j])["_timestamp"])]
    /\ UNCHANGED <<trackerVars, hubVars, now, syncLocks, orders, echoes, requests>>

\* Echoes the sheet still owes us at one time.
MaxEchoes == 1

\* The write of updateSingleByPrimaryKey reaches the document while the call
\* is still awaited, and the document's change notification is on its way
\* back.  (A notification emitted only after the call returned meets an armed
\* lock and is not tracked.)
MirrorLand(j) ==
    /\ runs[j].pc = "syncToSheet"
    /\ ~runs[j].landed
    /\ runs' = [runs EXCEPT ![j].landed = TRUE]
    /\ LET orderData == orderDataOf(CurrentUpdate(runs[j]))
           e == [primaryKey |-> orderData["ma_don_hang"],
                 changedFields |-> ObjectEntries(sheetUpdate(orderData)),
                 issuedAt |-> now]
       IN  echoes' = IF Cardinality(echoes) < MaxEchoes THEN echoes \cup {e} ELSE echoes
    /\ UNCHANGED <<trackerVars, hubVars, now, queue, syncLocks, isProcessing, orders, response, requests>>

\* syncToSheet returns: the lock is armed.
MirrorReturn(j) ==
    /\ runs[j].pc = "syncToSheet"
    /\ syncLocks' = armLock(syncLocks, orderDataOf(CurrentUpdate(runs[j]))["ma_don_hang"], now)
    /\ response' = [op |-> "syncToSheet", ok |-> TRUE,
                    key |-> runs[j].toProcess[runs[j].i].key]
    /\ Continue(j)
    /\ UNCHANGED <<trackerVars, hubVars, now, queue, orders, echoes, requests>>

\* A failed mirror call that arms the lock all the same.
MirrorThrows_ArmsLock(j) ==
    /\ runs[j].pc = "syncToSheet"
    /\ syncLocks' = armLock(syncLocks, orderDataOf(CurrentUpdate(runs[j]))["ma_don_hang"], now)
    /\ response' = [op |-> "syncToSheet", ok |-> FALSE,
                    key |-> runs[j].toProcess[runs[j].i].key]
    /\ Continue(j)
    /\ UNCHANGED <<trackerVars, hubVars, now, queue, orders, echoes, requests>>

\* The mirror's failure taken for a failure of the flush: the batch is
\* re-queued and the flush ends.
MirrorThrows_Aborts(j) ==
    /\ runs[j].pc = "syncToSheet"
    /\ queue' = requeue(queue, runs[j].toProcess)
    /\ isProcessing' = FALSE
    /\ runs' = RemoveAt(runs, j)
    /\ response' = [op |-> "syncToSheet", ok |-> FALSE,
                    key |-> runs[j].toProcess[runs[j].i].key]
    /\ UNCHANGED <<trackerVars, hubVars, now, syncLocks, orders, echoes, requests>>

\* syncToSheet throws (before or after the write landed): logged, no lock.
MirrorThrows(j) ==
    /\ runs[j].pc = "syncToSheet"
    /\ response' = [op |-> "syncToSheet", ok |-> FALSE,
                    key |-> runs[j].toProcess[runs[j].i].key]
    /\ Continue(j)
    /\ UNCHANGED <<trackerVars, hubVars, now, queue, syncLocks, orders, echoes, requests>>

Next ==
    \/ Tick
    \/ \E k \in Keys, p \in Payloads : QueueUpdate(k, p)
    \/ \E k \in Keys, p \in SheetPayloads : WebhookSync(k, p)
    \/ TimerTick
    \/ ForceFlush
    \/ \E j \in DOMAIN runs : ConnectReturn(j)
    \/ \E j \in DOMAIN runs : UpsertReturn(j)
    \/ \E j \in DOMAIN runs : UpsertThrows(j)
    \/ \E j \in DOMAIN runs : MirrorReturn(j)
    \/ \E j \in DOMAIN runs : MirrorThrows(j)

Spec == Init /\ [][Next]_vars

\* The engine together with the document's notifications of our own writes.
NextEcho ==
    \/ Next
    \/ \E j \in DOMAIN runs : MirrorLand(j)
    \/ \E e \in echoes : EchoWebhookSync(e)
    \/ \E e \in echoes, f \in BOOLEAN, failing \in SUBSET (DOMAIN conns) :
          EchoSheetChange(e, f, failing)

SpecEcho == Init /\ [][NextEcho]_vars

\* Scheduling: setInterval keeps calling processQueue; every awaited call
\* settles; the store write of a key, tried again and again, does not fail
\* for ever.
Fairness ==
    /\ WF_vars(TimerTick)
    /\ WF_vars(\E j \in DOMAIN runs : ConnectReturn(j))
    /\ WF_vars(\E j \in DOMAIN runs : UpsertReturn(j) \/ UpsertThrows(j))
    /\ \A k \in Keys :
          SF_vars(\E j \in DOMAIN runs :
                     runs[j].toProcess[runs[j].i].key = k /\ UpsertReturn(j))
    /\ WF_vars(\E j \in DOMAIN runs : MirrorReturn(j) \/ MirrorThrows(j))

SpecLive == Spec /\ Fairness

----------------------------------------------------------------------------
(* The version tracker on its own: changes recorded, polled and cleaned up. *)

\* Sheets in use; F3 is the sheet the queue mirrors to.
Sheets == {"F3", "F4"}

\* Changes the side sheet's buffer takes.
MaxSideChanges == 1

\* The change objects recorded (what handleSheetChange builds from a
\* notification's body).
ChangeData ==
    { [sheetName |-> "F3", primaryKey |-> "DH001"],
      [sheetName |-> "F4", primaryKey |-> "DH002"] }

\* Number of clock steps of the tracker's clock taken to reach time t.
TrackerTicks(t) == (t % MAX_AGE_MS) + (t \div MAX_AGE_MS)

\* Time passes: one millisecond, or one cleanup interval.
TrackerTick ==
    /\ \E d \in {1, MAX_AGE_MS} :
          /\ TrackerTicks(now) < MaxTicks
          /\ now' = now + d
    /\ UNCHANGED <<trackerVars, hubVars, queue, syncLocks, isProcessing, runs, orders, echoes,
                   response, requests>>

\* syncQueueService.recordExternalChange(sheetName, changeData)
RecordExternalChange(changeData) ==
    LET sheetName == changeData.sheetName
        done == recordExternalChange(versionMap, lastChangeTimestamp, pendingChanges,
                                     sheetName, changeData, now)
    IN  /\ sheetName # "F3" => Len(changesOf(pendingChanges, sheetName)) < MaxSideChanges
        /\ versionMap' = done.versionMap
        /\ lastChangeTimestamp' = done.lastChangeTimestamp
        /\ pendingChanges' = done.pendingChanges
        /\ response' = [op |-> "recordExternalChange", sheetName |-> sheetName,
                        version |-> done.version,
                        last |-> getLastChangeTimestamp(lastChangeTimestamp, sheetName),
                        full |-> Len(changesOf(pendingChanges, sheetName))
                                    >= MAX_PENDING_CHANGES]
        /\ UNCHANGED <<hubVars, now, queue, syncLocks, isProcessing, runs, orders, echoes,
                       requests>>

\* GET /webhook/debug/changes/:sheetName?since=
GetChangesSince(sheetName, since) ==
    /\ response' = [op |-> "getChangesSince", sheetName |-> sheetName, since |-> since,
                    changes |-> getChangesSince(pendingChanges, sheetName, since)]
    /\ UNCHANGED <<trackerVars, hubVars, now, queue, syncLocks, isProcessing, runs, orders,
                   echoes, requests>>

\* setInterval(() => syncQueueService.cleanup(), 300000)
Cleanup ==
    /\ pendingChanges' = cleanup(pendingChanges, now)
    /\ response' = [op |-> "cleanup"]
    /\ UNCHANGED <<versionMap, lastChangeTimestamp, hubVars, now, queue, syncLocks,
                   isProcessing, runs, orders, echoes, requests>>

NextTracker ==
    \/ TrackerTick
    \/ \E d \in ChangeData : RecordExternalChange(d)
    \/ \E s \in Sheets, since \in {0, now} : GetChangesSince(s, since)
    \/ Cleanup

SpecTracker == Init /\ [][NextTracker]_vars

----------------------------------------------------------------------------
(* The broadcast hub on its own: subscribe, disconnect, broadcast, stats.  *)

\* The response objects of the GET /sse/subscribe requests.
Connections == {"res1", "res2", "res3"}

\* Broadcasts in one behaviour.
MaxBroadcasts == 2

\* subscribe: the connected event is written, then addClient, then the
\* heartbeat interval is set.
Subscribe(res, sheetName) ==
    LET done == addClient(clients, stats, sheetName, res)
    IN  /\ res \notin DOMAIN conns
        /\ clients' = done.clients
        /\ stats' = done.stats
        /\ conns' = (res :> [sheetName |-> sheetName, closed |-> FALSE, writes |-> 0,
                              heartbeat |-> TRUE, beats |-> 0]) @@ conns
        /\ response' = [op |-> "subscribe", res |-> res]
        /\ UNCHANGED <<trackerVars, now, queue, syncLocks, isProcessing, runs, orders, echoes,
                       requests>>

\* req.on('close'): clearInterval(heartbeatInterval); removeClient(sheetName, res)
Close(res) ==
    /\ res \in DOMAIN conns
    /\ ~conns[res].closed
    /\ LET done == removeClient(clients, stats, conns[res].sheetName, res)
       IN  /\ clients' = done.clients
           /\ stats' = done.stats
    /\ conns' = [conns EXCEPT ![res].closed = TRUE, ![res].heartbeat = FALSE]
    /\ response' = [op |-> "close", res |-> res]
    /\ UNCHANGED <<trackerVars, now, queue, syncLocks, isProcessing, runs, orders, echoes,
                   requests>>

\* sseController.broadcast(sheetName, data); the writes to `failing` throw.
Broadcast(sheetName, failing) ==
    LET done == broadcast(clients, stats, sheetName, failing)
    IN  /\ requests < MaxBroadcasts
        /\ requests' = requests + 1
        /\ failing \subseteq clientSetOf(clients, sheetName)
        /\ clients' = done.clients
        /\ stats' = done.stats
        /\ conns' = Deliver(conns, done.written)
        /\ response' = [op |-> "broadcast", sheetName |-> sheetName,
                        failing |-> failing, successCount |-> done.successCount]
        /\ UNCHANGED <<trackerVars, now, queue, syncLocks, isProcessing, runs, orders, echoes>>

\* GET /sse/stats
GetStats ==
    /\ response' = [op |-> "getStats", body |-> getStats(clients, stats)]
    /\ UNCHANGED <<trackerVars, hubVars, now, queue, syncLocks, isProcessing, runs, orders,
                   echoes, requests>>

NextHub ==
    \/ \E res \in Connections, s \in Sheets : Subscribe(res, s)
    \/ \E res \in Connections : Close(res)
    \/ \E s \in Sheets, failing \in SUBSET Connections : Broadcast(s, failing)
    \/ GetStats

SpecHub == Init /\ [][NextHub]_vars

----------------------------------------------------------------------------
(* The three ingestion routes with the requests a caller can send: client  *)
(* writes (POST /sync/update), sheet notifications sent to the queue       *)
(* (POST /sync/webhook) and those sent to POST /webhook/sheet-change, the  *)
(* URL the sheet's script is configured with; subscribers listen.  All at  *)
(* one instant: none of these handlers waits.                              *)

\* The key of a request: a business key, or none.
RequestKeys == Keys \cup {""}

\* The sheetName of a notification: the mirrored sheet, or none.
RequestSheets == {"F3", ""}

\* The connections that subscribe while requests come in.
Listeners == {"res1"}

NextIngest ==
    \/ \E k \in RequestKeys, p \in Payloads : QueueUpdate(k, p)
    \/ \E k \in RequestKeys, p \in SheetPayloads : WebhookSync(k, p)
    \/ \E s \in RequestSheets, k \in RequestKeys, p \in SheetPayloads \cup {<<>>},
          f \in BOOLEAN, failing \in SUBSET (DOMAIN conns) :
          HandleSheetChange(s, k, p, f, failing)
    \/ \E res \in Listeners, s \in Sheets : Subscribe(res, s)

SpecIngest == Init /\ [][NextIngest]_vars

----------------------------------------------------------------------------
(* Field names on their way to the store: enqueue's translation and the    *)
(* column filter of upsertOrder, on field sets with names of every kind.   *)

\* databaseService.upsertOrder(orderData, { source }), called on its own.
UpsertOrder(orderData, source) ==
    LET done == upsertOrder(orders, orderData, source, now)
    IN  /\ orders' = done.orders
        /\ response' = [op |-> "upsertOrderCall", orderData |-> orderData,
                        source |-> source, row |-> done.row]
        /\ UNCHANGED <<trackerVars, hubVars, now, queue, syncLocks, isProcessing, runs,
                       echoes, requests>>

\* The object a caller passes for a key and a field set.
OrderDataOf(maDonHang, updates) == Spread(("ma_don_hang" :> maDonHang), convertUpdates(updates))

NextFields ==
    \/ \E p \in FieldSets : QueueUpdate("DH001", p)
    \/ \E p \in FieldSets : WebhookSync("DH001", p)
    \/ \E p \in FieldSets, source \in {"web", "sheet"} :
          UpsertOrder(OrderDataOf("DH001", p), source)

SpecFields == Init /\ [][NextFields]_vars

----------------------------------------------------------------------------
(* The two translations on every entry of their tables: enqueue turns a    *)
(* labelled field into a pending update, syncToSheet turns the columns of  *)
(* an order into the labelled fields it writes to the document.            *)

\* A field set with one field.
OneField(name) == << <<name, "x">> >>

\* syncToSheet(sheetName, orderData), called on its own: the fields it hands
\* to updateSingleByPrimaryKey next to primaryKey.
SyncToSheet(orderData) ==
    /\ response' = [op |-> "syncToSheetCall", orderData |-> orderData,
                    primaryKey |-> orderData["ma_don_hang"],
                    sheetUpdate |-> sheetUpdate(orderData)]
    /\ UNCHANGED <<trackerVars, hubVars, now, queue, syncLocks, isProcessing, runs, orders,
                   echoes, requests>>

NextMapping ==
    \/ \E l \in DOMAIN sheetToDbMapping : QueueUpdate("DH001", OneField(l))
    \/ \E c \in DOMAIN dbToSheetMapping :
          SyncToSheet(Spread(("ma_don_hang" :> "DH001"), (c :> "x")))
    \/ \E i \in DOMAIN queue : SyncToSheet(orderDataOf(queue[i].value))

SpecMapping == Init /\ [][NextMapping]_vars

----------------------------------------------------------------------------
(* One key written again and again with different field sets while the     *)
(* flush runs: what a replaced update leaves behind.                       *)

\* Field sets that have no field in common, or one: the status, the price,
\* the status and the price under its label, a note under an unknown label.
ReplaceSets ==
    { << <<"Trang thai giao hang NB", "Huy">> >>,
      << <<"gia_ban", "100">> >>,
      << <<"Trang thai giao hang NB", "Da giao">>, <<"Gia ban", "200">> >>,
      << <<"Ghi chu moi", "x">> >> }

NextReplace ==
    \/ Tick
    \/ \E p \in ReplaceSets : QueueUpdate("DH001", p)
    \/ \E p \in ReplaceSets : WebhookSync("DH001", p)
    \/ TimerTick
    \/ \E j \in DOMAIN runs : ConnectReturn(j)
    \/ \E j \in DOMAIN runs : UpsertReturn(j)
    \/ \E j \in DOMAIN runs : UpsertThrows(j)
    \/ \E j \in DOMAIN runs : MirrorReturn(j)
    \/ \E j \in DOMAIN runs : MirrorThrows(j)

SpecReplace == Init /\ [][NextReplace]_vars

----------------------------------------------------------------------------
(* The store writes of the flush and of handleSheetChange side by side:    *)
(* the handler taken apart at its await of upsertOrder.                    *)

\* The activations of handleSheetChange that are waiting for their store
\* write.
SheetChangeCalls == {j \in DOMAIN runs : runs[j].pc = "handleSheetChange"}

\* handleSheetChange up to `await databaseService.upsertOrder(dbUpdate, ...)`
\* for a notification that has a key and fields.
SheetChangeBegin(sheetName, primaryKey, dataSource) ==
    /\ ~isMissing(sheetName)
    /\ ~isMissing(primaryKey)
    /\ Len(dataSource) > 0
    /\ Len(changesOf(pendingChanges, sheetName)) + Cardinality(SheetChangeCalls) < MaxHookChanges
    /\ runs' = Append(runs, [pc |-> "handleSheetChange", i |-> 1, landed |-> FALSE,
                             toProcess |-> <<[key |-> primaryKey,
                                              value |-> dbUpdateOf(primaryKey, dataSource)]>>,
                             sheetName |-> sheetName, dataSource |-> dataSource])
    /\ response' = [op |-> "handleSheetChangeCall", key |-> primaryKey]
    /\ UNCHANGED <<trackerVars, hubVars, now, queue, syncLocks, isProcessing, orders, echoes,
                   requests>>

\* The store write settles (or throws, which is caught); the handler records
\* the change, broadcasts it and answers.
SheetChangeReturn(j, dbFails, failing) ==
    /\ runs[j].pc = "handleSheetChange"
    /\ SheetChange(runs[j].sheetName, runs[j].toProcess[1].key, runs[j].dataSource,
                   FALSE, now, dbFails, failing)
    /\ runs' = RemoveAt(runs, j)
    /\ UNCHANGED <<now, queue, syncLocks, isProcessing, echoes, requests>>

NextWrites ==
    \/ Next
    \/ \E k \in Keys, p \in SheetPayloads : SheetChangeBegin("F3", k, p)
    \/ \E j \in DOMAIN runs, f \in BOOLEAN, failing \in SUBSET (DOMAIN conns) :
          SheetChangeReturn(j, f, failing)

SpecWrites == Init /\ [][NextWrites]_vars

----------------------------------------------------------------------------
(* The hub with the heartbeat timers of its connections.                   *)

\* Heartbeats written to one connection.
MaxBeats == 1

\* setInterval(() => { res.write(`:heartbeat\n\n`) }, 30000) fires.
Heartbeat(res) ==
    /\ res \in DOMAIN conns
    /\ conns[res].heartbeat
    /\ conns[res].beats < MaxBeats
    /\ conns' = [conns EXCEPT ![res].beats = @ + 1]
    /\ response' = [op |-> "heartbeat", res |-> res,
                    registered |-> res \in clientSetOf(clients, conns[res].sheetName)]
    /\ UNCHANGED <<trackerVars, clients, stats, now, queue, syncLocks, isProcessing, runs,
                   orders, echoes, requests>>

NextHeartbeat ==
    \/ NextHub
    \/ \E res \in Connections : Heartbeat(res)

SpecHeartbeat == Init /\ [][NextHeartbeat]_vars

----------------------------------------------------------------------------
(* Writes for one key whose field set names the key column as well.        *)

\* Field sets of a request for DH001: the status alone; with the key's label
\* and the key itself, as a client that sends the whole row does; with the
\* key's label or column and another key.
KeyFieldSets ==
    { << <<"Trang thai giao hang NB", "Huy">> >>,
      << <<"Ma don hang", "DH001">>, <<"Trang thai giao hang NB", "Huy">> >>,
      << <<"Ma don hang", "DH002">>, <<"Trang thai giao hang NB", "Huy">> >>,
      << <<"ma_don_hang", "DH002">>, <<"Trang thai giao hang NB", "Da giao">> >> }

NextKeyField ==
    \/ \E p \in KeyFieldSets : QueueUpdate("DH001", p)
    \/ \E p \in KeyFieldSets : WebhookSync("DH001", p)
    \/ TimerTick
    \/ \E j \in DOMAIN runs : ConnectReturn(j)
    \/ \E j \in DOMAIN runs : UpsertReturn(j)
    \/ \E j \in DOMAIN runs : UpsertThrows(j)
    \/ \E j \in DOMAIN runs : MirrorReturn(j)
    \/ \E j \in DOMAIN runs : MirrorThrows(j)

SpecKeyField == Init /\ [][NextKeyField]_vars

----------------------------------------------------------------------------
(* Properties.                                                             *)

Max(a, b) == IF a >= b THEN a ELSE b

\* The pending entry of key k is the update v.
Holds(q, k, v) == MapHas(q, k) /\ MapGet(q, k) = v

\* C1: in every reachable state the pending queue holds at most one
\* PendingUpdate per business key.
C1_OnePendingPerKey ==
    \A a, b \in DOMAIN queue : queue[a].key = queue[b].key => a = b

\* An accepted enqueue met a pending entry for its key, and the queue still
\* holds a single entry for that key.
C1_Witness ==
    /\ response.op = "enqueue"
    /\ response.existing # "none"
    /\ response.result.queued
    /\ Cardinality({a \in DOMAIN queue : queue[a].key = response.key}) = 1

\* C2 (as claimed): of two enqueue calls for one key with distinct timestamps
\* and no flush between them, the queue holds the update with the later
\* timestamp, and the call with the earlier timestamp was answered
\* {queued:false, conflict:true, winner: source of the later update}.
C2_LaterWinsEarlierConflicts ==
    (/\ response.op = "enqueue"
     /\ response.prior.queued
     /\ response.existing \in {"older", "newer"})
    => IF response.existing = "older"
       THEN \* the earlier call is the one that queued the pending entry
            /\ response.result.queued
            /\ response.prior = Verdict(FALSE, TRUE, response.source)
       ELSE \* the earlier call is this one
            /\ ~response.result.queued
            /\ response.result.conflict

\* C3: a 'sheet' enqueue for a key whose lock has not expired returns
\* {queued:false, conflict:false} and leaves the queue and the lock map
\* unchanged.
C3_EchoIsNoOp ==
    [][\A k \in Keys, p \in SheetPayloads :
          (/\ WebhookSync(k, p)
           /\ k \in DOMAIN syncLocks
           /\ syncLocks[k] > now)
          => /\ queue' = queue
             /\ syncLocks' = syncLocks
             /\ response'.result = Verdict(FALSE, FALSE, "none")]_vars

\* A sheet-sourced call was dropped by the lock of its key.
C3_Witness ==
    /\ response.op = "enqueue"
    /\ response.source = "sheet"
    /\ ~response.result.queued
    /\ ~response.result.conflict
    /\ response.key \in DOMAIN syncLocks

\* C4 (as claimed): the notification of one of our own mirror writes that
\* arrives within the suppression window is neither accepted into the queue
\* nor applied to the store.
C4_EchoNeverReingested ==
    (/\ response.op \in {"enqueue", "handleSheetChange"}
     /\ response.echo
     /\ response.inWindow)
    => /\ response.op = "enqueue" => ~response.result.queued
       /\ response.op = "handleSheetChange" => ~response.applied

\* C5: at most one activation of processQueue is in progress, it is the one
\* the flag stands for, and a call that finds the flag set starts nothing.
C5_SingleFlush ==
    /\ Len(runs) <= 1
    /\ isProcessing <=> Len(runs) = 1

\* A tick or force-flush found the previous run still awaiting, with updates
\* pending, and returned.
C5_Witness ==
    /\ response.op = "processQueue"
    /\ ~response.started
    /\ response.busy
    /\ Len(queue) > 0
    /\ Len(runs) = 1

\* C6: a flush snapshots and clears the queue in one step; from then on its
\* batch never changes, an update accepted while it runs goes to the live
\* queue only, and no later step of the flush removes a live entry.
C6_SnapshotAtomic ==
    [][/\ Len(runs') > Len(runs)
            => /\ runs'[Len(runs')].toProcess = queue
               /\ queue' = <<>>
       /\ (Len(runs) >= 1 /\ Len(runs') = Len(runs))
            => \A j \in DOMAIN runs : runs'[j].toProcess = runs[j].toProcess
       /\ (Len(runs) >= 1 /\ requests' # requests)
            => /\ runs' = runs
               /\ response'.result.queued
                    => /\ MapHas(queue', response'.key)
                       /\ MapGet(queue', response'.key)["_timestamp"] = now
                       /\ MapGet(queue', response'.key)["_source"] = response'.source
               /\ \A e \in Range(queue) : e.key # response'.key => e \in Range(queue')
       /\ (Len(runs) >= 1 /\ requests' = requests /\ Len(runs') <= Len(runs))
            => \A e \in Range(queue) : e \in Range(queue')]_vars

\* An update was accepted while a flush with a non-empty batch was running.
C6_Witness ==
    /\ Len(runs) = 1
    /\ response.op = "enqueue"
    /\ response.result.queued
    /\ MapHas(queue, response.key)

\* C7: when the store write of a flush throws, afterwards the live queue
\* holds, for the key of the failed update, the later-stamped of the failed
\* update and the update enqueued for that key while the flush ran.
C7_FailedUpdateRemerged ==
    [][\A j \in DOMAIN runs :
          UpsertThrows(j) =>
            LET e == runs[j].toProcess[runs[j].i]
                live == Pending(queue, e.key)
            IN  /\ MapHas(queue', e.key)
                /\ MapGet(queue', e.key) \in {e.value} \cup Range(live)
                /\ MapGet(queue', e.key)["_timestamp"] =
                      IF live = <<>> THEN e.value["_timestamp"]
                      ELSE Max(e.value["_timestamp"], live[1]["_timestamp"])]_vars

\* A store write failed while a later-stamped update for the same key was
\* waiting in the live queue.
C7_Witness ==
    /\ response.op = "catch"
    /\ response.live = "newer"
    /\ MapHas(queue, response.key)

\* C8 (as claimed): when the store write of one update of a batch fails, the
\* updates of the batch whose store write already succeeded are not put back
\* into the queue.
C8_OnlyFailedRequeued ==
    [][\A j \in DOMAIN runs :
          UpsertThrows(j) =>
            \A a \in 1..(runs[j].i - 1) :
                LET d == runs[j].toProcess[a]
                IN  ~(~MapHas(queue, d.key) /\ Holds(queue', d.key, d.value))]_vars

Times ==
    {a + b * LOCK_WINDOW_MS : a \in 0..MaxTicks, b \in 0..MaxTicks} \cap
    {t \in 0..(MaxTicks * LOCK_WINDOW_MS) : Ticks(t) <= MaxTicks}

\* Every queue entry enqueue can create.
Entries ==
    {[key |-> k, value |-> pendingUpdate(k, convertUpdates(p), "web", t)] :
        k \in Keys, p \in Payloads, t \in Times}
    \cup
    {[key |-> k, value |-> pendingUpdate(k, convertUpdates(p), "sheet", t)] :
        k \in Keys, p \in SheetPayloads, t \in Times}

InBatch(e) == \E j \in DOMAIN runs : e \in Range(runs[j].toProcess)

\* The store write of the entry returned: the row was written, or the entry
\* carries no column besides the key and there is nothing to write.
Applied(e) ==
    /\ response.op = "upsertOrder"
    /\ response.entry = e
    /\ response.dbResult \/ validColumns(orderDataOf(e.value)) \subseteq {"ma_don_hang"}

\* The entry is in no batch and a different, not earlier stamped update is
\* pending for its key.
Superseded(e) ==
    /\ ~InBatch(e)
    /\ MapHas(queue, e.key)
    /\ MapGet(queue, e.key) # e.value
    /\ MapGet(queue, e.key)["_timestamp"] >= e.value["_timestamp"]

C11_StaleSheetWriteSkipped ==
    [][\A j \in DOMAIN runs :
          LET u == CurrentUpdate(runs[j])
              k == u["ma_don_hang"]
          IN  (/\ UpsertReturn(j)
               /\ u["_source"] = "sheet"
               /\ k \in DOMAIN orders
               /\ orders[k]["trang_thai_giao_hang_nb"] = "Huy"
               /\ orders[k]["updated_at"] > u["_timestamp"])
              => /\ orders' = orders
                 /\ ~response'.dbResult]_vars

C13_AppliedUpdateRecordedAndBroadcast ==
    [][\A j \in DOMAIN runs :
          (UpsertReturn(j) /\ response'.dbResult)
          => \/ pendingChanges' # pendingChanges
             \/ stats'.messagesSent > stats.messagesSent
             \/ (runs' # <<>> /\ Len(runs') = Len(runs)
                  /\ runs'[j].pc \in {"recordChange", "broadcast"})]_vars

\* C14: when the mirror write of one update throws, the store and the queue
\* are left as they are and the flush goes on with the next update of the
\* batch (or ends normally after the last one).
C14_MirrorFailureIsolated ==
    [][\A j \in DOMAIN runs :
          MirrorThrows(j)
          => /\ orders' = orders
             /\ queue' = queue
             /\ syncLocks' = syncLocks
             /\ IF runs[j].i < Len(runs[j].toProcess)
                THEN /\ Len(runs') = Len(runs)
                     /\ runs'[j].toProcess = runs[j].toProcess
                     /\ runs'[j].i = runs[j].i + 1
                     /\ runs'[j].pc = "upsertOrder"
                     /\ isProcessing'
                ELSE /\ Len(runs') = Len(runs) - 1
                     /\ ~isProcessing']_vars

\* The mirror of the first update of a batch failed, its row is in the store
\* and the flush is at the store write of the second update.
C14_Witness ==
    /\ response.op = "syncToSheet"
    /\ ~response.ok
    /\ response.key \in DOMAIN orders
    /\ ~MapHas(queue, response.key)
    /\ \E j \in DOMAIN runs : runs[j].i = 2 /\ runs[j].pc = "upsertOrder"

\* C15 (as claimed): recordExternalChange returns a version strictly greater
\* than the version it returned last for the same sheet.
C15_VersionStrictlyIncreases ==
    [][\A d \in ChangeData :
          (RecordExternalChange(d) /\ d.sheetName \in DOMAIN lastChangeTimestamp)
          => response'.version > lastChangeTimestamp[d.sheetName]]_vars

\* C16: getChangesSince(sheet, v) returns exactly the buffered entries of the
\* sheet with _version > v, in ascending (non-decreasing) version order, and
\* never more than 100 of them.
C16_ChangesSinceExact ==
    response.op = "getChangesSince" =>
        LET buf   == changesOf(pendingChanges, response.sheetName)
            got   == response.changes
            newer == {i \in DOMAIN buf : buf[i]["_version"] > response.since}
        IN  /\ \A i \in DOMAIN got :
                  /\ got[i]["_version"] > response.since
                  /\ got[i].sheetName = response.sheetName
                  /\ \E b \in newer : buf[b] = got[i]
            /\ Len(got) = Cardinality(newer)
            /\ \A i, j \in DOMAIN got : i < j => got[i]["_version"] <= got[j]["_version"]
            /\ Len(got) <= 100

\* A poll of a full buffer returned some of its entries and left out others.
C16_Witness ==
    /\ response.op = "getChangesSince"
    /\ Len(changesOf(pendingChanges, response.sheetName)) = 100
    /\ Len(response.changes) >= 1
    /\ Len(response.changes) < 100

\* C17: no buffer ever holds more than 100 entries; recording a change
\* appends it, and when the buffer was full exactly its oldest entry is
\* dropped, the others keeping their order.
C17_BufferBoundedOldestEvicted ==
    [][/\ \A s \in DOMAIN pendingChanges' : Len(pendingChanges'[s]) <= 100
       /\ \A d \in ChangeData :
             RecordExternalChange(d) =>
                LET old == changesOf(pendingChanges, d.sheetName)
                    new == pendingChanges'[d.sheetName]
                IN  /\ new[Len(new)]["_version"] = now
                    /\ new[Len(new)].primaryKey = d.primaryKey
                    /\ IF Len(old) >= 100
                       THEN /\ Len(new) = 100
                            /\ \A i \in 1..99 : new[i] = old[i + 1]
                       ELSE /\ Len(new) = Len(old) + 1
                            /\ \A i \in DOMAIN old : new[i] = old[i]
                    /\ \A s \in DOMAIN pendingChanges' \ {d.sheetName} :
                          s \in DOMAIN pendingChanges
                          /\ pendingChanges'[s] = pendingChanges[s]]_vars

\* A change was recorded into a full buffer that held changes of two
\* different instants.
C17_Witness ==
    /\ response.op = "recordExternalChange"
    /\ response.full
    /\ Len(changesOf(pendingChanges, response.sheetName)) = 100
    /\ pendingChanges[response.sheetName][1]["_version"]
          # pendingChanges[response.sheetName][100]["_version"]

\* Connections registered for any sheet.
Registered == UNION {clients[s] : s \in DOMAIN clients}

\* C18: in a broadcast, whichever writes fail, every other subscriber of the
\* sheet receives the event, and the returned count is the number of
\* subscribers whose write succeeded.
C18_FailureDoesNotAbortDelivery ==
    [][\A s \in Sheets, failing \in SUBSET Connections :
          Broadcast(s, failing) =>
             /\ \A c \in clientSetOf(clients, s) \ failing :
                   conns'[c].writes = conns[c].writes + 1
             /\ response'.successCount = Cardinality(clientSetOf(clients, s) \ failing)]_vars

\* A broadcast in which a write failed was still delivered to another
\* subscriber.
C18_Witness ==
    /\ response.op = "broadcast"
    /\ response.failing # {}
    /\ response.successCount >= 1
    /\ \E c \in clientSetOf(clients, response.sheetName) : conns[c].writes >= 1

\* C19: a subscriber whose write failed is in no set of the registry when
\* broadcast returns, stats() taken then does not count it, and no broadcast
\* writes to a connection that is not registered.
C19_FailedSubscriberEvicted ==
    [][\A s \in Sheets, failing \in SUBSET Connections :
          Broadcast(s, failing) =>
             LET remaining == clientSetOf(clients, s) \ failing
                 body      == getStats(clients', stats')
             IN  /\ \A c \in failing :
                       /\ \A x \in DOMAIN clients' : c \notin clients'[x]
                       /\ conns'[c].writes = conns[c].writes
                 /\ IF remaining = {}
                    THEN s \notin DOMAIN body.clientsBySheet
                    ELSE body.clientsBySheet[s] = Cardinality(remaining)
                 /\ \A c \in DOMAIN conns \ Registered :
                       conns'[c].writes = conns[c].writes]_vars

\* A connection evicted by an earlier broadcast (its request is still open)
\* was left out of a later broadcast to its sheet that reached a subscriber.
C19_Witness ==
    /\ response.op = "broadcast"
    /\ response.successCount >= 1
    /\ \E c \in DOMAIN conns \ Registered :
          /\ ~conns[c].closed
          /\ conns[c].sheetName = response.sheetName
          /\ c \notin response.failing

\* C20: a broadcast to a sheet writes to no connection that is not registered
\* for that sheet; to a sheet without subscribers it returns 0 and changes
\* nothing; with one subscriber whose write succeeds it returns 1.
C20_OnlySubscribersOfSheet ==
    [][\A s \in Sheets, failing \in SUBSET Connections :
          Broadcast(s, failing) =>
             LET clientSet == clientSetOf(clients, s)
             IN  /\ \A c \in DOMAIN conns \ clientSet : conns'[c] = conns[c]
                 /\ clientSet = {}
                      => /\ response'.successCount = 0
                         /\ clients' = clients
                         /\ stats' = stats
                 /\ (Cardinality(clientSet) = 1 /\ failing = {})
                      => response'.successCount = 1
                 /\ response'.successCount <= Cardinality(clientSet)]_vars

\* The only subscriber received the broadcast to its sheet, and a broadcast
\* to the other sheet returned 0.
C20_Witness ==
    /\ response.op = "broadcast"
    /\ response.successCount = 0
    /\ response.failing = {}
    /\ \E s \in Sheets \ {response.sheetName}, c \in Connections :
          /\ clients = (s :> {c})
          /\ conns[c].writes = 1

\* C21: a broadcast to a sheet that has no registered subscriber (none ever
\* subscribed, or all of them disconnected or were evicted) returns 0 and
\* leaves the registry, the counters and every connection as they were.
C21_EmptyBroadcastIsNoOp ==
    [][\A s \in Sheets, failing \in SUBSET Connections :
          (/\ Broadcast(s, failing)
           /\ \A c \in DOMAIN conns : conns[c].sheetName = s => c \notin Registered)
          => /\ response'.op = "broadcast"
             /\ response'.successCount = 0
             /\ clients' = clients
             /\ stats' = stats
             /\ conns' = conns]_vars

\* A broadcast returned 0 for a sheet whose subscribers had gone, one by
\* disconnecting and one by eviction after a failed write.
C21_Witness ==
    /\ response.op = "broadcast"
    /\ response.successCount = 0
    /\ response.sheetName \notin DOMAIN clients
    /\ stats.totalConnections >= 2
    /\ \E c, d \in DOMAIN conns :
          /\ conns[c].sheetName = response.sheetName
          /\ conns[d].sheetName = response.sheetName
          /\ conns[c].closed
          /\ ~conns[d].closed

\* C22 (as claimed): from subscribe until disconnect, every broadcast to the
\* sheet of a connection is written to it (unless that very write fails).
C22_DeliveredUntilDisconnect ==
    [][\A s \in Sheets, failing \in SUBSET Connections :
          Broadcast(s, failing) =>
             \A c \in DOMAIN conns :
                (conns[c].sheetName = s /\ ~conns[c].closed /\ c \notin failing)
                => conns'[c].writes = conns[c].writes + 1]_vars

\* C22 (amended): subscribe registers the connection for its sheet and for no
\* other; a connection leaves the registry only by its disconnect or by a
\* broadcast in which the write to it failed; while it is registered every
\* broadcast to its sheet whose write to it succeeds is written to it; after
\* its disconnect it is in no set of the registry and nothing more is written
\* to it.
C22_RegisteredUntilDisconnectOrFailure ==
    [][/\ \A res \in Connections, s \in Sheets :
             Subscribe(res, s) =>
                /\ res \notin Registered
                /\ res \in clientSetOf(clients', s)
                /\ \A x \in Sheets \ {s} : res \notin clientSetOf(clients', x)
       /\ \A c \in Registered :
             c \notin Registered' =>
                \/ response'.op = "close" /\ response'.res = c
                \/ response'.op = "broadcast" /\ c \in response'.failing
       /\ \A s \in Sheets, failing \in SUBSET Connections :
             Broadcast(s, failing) =>
                \A c \in Registered :
                   (conns[c].sheetName = s /\ c \notin failing)
                   => conns'[c].writes = conns[c].writes + 1
       /\ \A res \in Connections : Close(res) => res \notin Registered'
       /\ \A c \in DOMAIN conns :
             conns[c].closed =>
                /\ c \notin Registered'
                /\ conns'[c] = conns[c]]_vars

\* A connection received a broadcast, disconnected, and was left out of the
\* next broadcast to its sheet, which reached another subscriber.
C22_Witness ==
    /\ response.op = "broadcast"
    /\ response.failing = {}
    /\ \E c, d \in DOMAIN conns :
          /\ conns[c].sheetName = response.sheetName
          /\ conns[d].sheetName = response.sheetName
          /\ conns[c].closed
          /\ conns[c].writes = 1
          /\ c \notin Registered
          /\ d \in Registered
          /\ conns[d].writes = 2

\* C23: a client write or a sheet notification without a business key (for
\* POST /webhook/sheet-change also one without a sheet name) is answered with
\* status 400 and changes nothing: the queue, the locks, the store, the
\* version tracker, the registry, its counters and every connection stay as
\* they are.
C23_MissingKeyRejected ==
    [][LET rejected ==
               /\ response'.op = "validationError"
               /\ response'.status = 400
               /\ queue' = queue
               /\ syncLocks' = syncLocks
               /\ orders' = orders
               /\ <<versionMap, lastChangeTimestamp, pendingChanges>>' =
                     <<versionMap, lastChangeTimestamp, pendingChanges>>
               /\ <<clients, stats, conns>>' = <<clients, stats, conns>>
       IN  /\ \A p \in Payloads : QueueUpdate("", p) => rejected
           /\ \A p \in SheetPayloads : WebhookSync("", p) => rejected
           /\ \A s \in RequestSheets, k \in RequestKeys :
                 (s = "" \/ k = "") =>
                    \A p \in SheetPayloads \cup {<<>>}, f \in BOOLEAN,
                       failing \in SUBSET Listeners :
                          HandleSheetChange(s, k, p, f, failing) => rejected]_vars

\* A request without a key was rejected while an update was pending, a row
\* was in the store, a change was buffered and a subscriber was listening.
C23_Witness ==
    /\ response.op = "validationError"
    /\ Len(queue) >= 1
    /\ DOMAIN orders # {}
    /\ Len(changesOf(pendingChanges, "F3")) >= 1
    /\ clientSetOf(clients, "F3") # {}

\* C24 (as claimed): every valid sheet notification goes into the queue as
\* enqueue(key, fields, 'sheet') and reaches the store only through a flush,
\* and is recorded in the version tracker and broadcast: a notification
\* posted to /webhook/sheet-change is enqueued and does not write the store
\* itself, and one posted to /sync/webhook is recorded in the tracker.
C24_NotificationRoutedThroughQueue ==
    [][/\ \A k \in Keys, p \in SheetPayloads, f \in BOOLEAN, failing \in SUBSET Listeners :
             HandleSheetChange("F3", k, p, f, failing) =>
                /\ orders' = orders
                /\ queue' = enqueue(queue, syncLocks, k, p, "sheet", now).queue
       /\ \A k \in Keys, p \in SheetPayloads :
             WebhookSync(k, p) =>
                Len(changesOf(pendingChanges', "F3")) = Len(changesOf(pendingChanges, "F3")) + 1]_vars

\* C25 (as claimed): a client write that carries only the business key is
\* answered with a validation error and creates no pending update.
C25_EmptyFieldSetRejected ==
    [][\A k \in Keys :
          QueueUpdate(k, <<>>) =>
             /\ response'.op = "validationError"
             /\ queue' = queue]_vars

\* C26 (as claimed): when flush() returns, every update that was pending when
\* it was called has been processed by a flush; so a call that returns
\* without having started a cycle found nothing pending, also while a
\* timer-driven flush is in progress.
C26_ForceFlushProcessesPending ==
    [][(ForceFlush /\ ~response'.started) => queue = <<>>]_vars

\* C27: a sheet-sourced enqueue for a key whose lock entry is still in the
\* map but has expired (expiry <= now) is not suppressed: it goes through
\* conflict resolution like any update (here it is accepted and becomes the
\* pending update of the key, stamped now), and the lock entry stays as it is.
C27_ExpiredLockDoesNotSuppress ==
    [][\A k \in Keys, p \in SheetPayloads :
          (/\ WebhookSync(k, p)
           /\ k \in DOMAIN syncLocks
           /\ syncLocks[k] <= now)
          => /\ response'.result.queued \/ response'.result.conflict
             /\ response'.result.queued
                  => /\ MapHas(queue', k)
                     /\ MapGet(queue', k)["_source"] = "sheet"
                     /\ MapGet(queue', k)["_timestamp"] = now
                     /\ MapGet(queue', k)["trang_thai_giao_hang_nb"] = p[1][2]
             /\ syncLocks' = syncLocks]_vars

\* A sheet notification that arrived at the expiry instant of the lock of its
\* key was queued, the expired entry still in the lock map.
C27_Witness ==
    /\ response.op = "enqueue"
    /\ response.source = "sheet"
    /\ response.result.queued
    /\ response.key \in DOMAIN syncLocks
    /\ syncLocks[response.key] = now
    /\ MapHas(queue, response.key)

\* The field of the model's payloads as an update carries it ("" for none).
StatusOf(update) ==
    IF "trang_thai_giao_hang_nb" \in DOMAIN update
    THEN update["trang_thai_giao_hang_nb"] ELSE ""

Conforms(name) ==
    /\ Len(name) >= 1
    /\ \A i \in 1..Len(name) : SubSeq(name, i, i) \in Letters \cup Digits \cup {"_"}
    /\ SubSeq(name, 1, 1) \in Letters

\* C29: whatever object upsertOrder is called with, no stored row ever has a
\* column whose name fails the identifier convention; the conforming fields
\* of a web call are all written; and a call that has no conforming field
\* besides the key leaves the table as it is and returns null.
C29_InvalidFieldNamesDropped ==
    [][\A p \in FieldSets, source \in {"web", "sheet"} :
          LET data == OrderDataOf("DH001", p)
              good == {c \in DOMAIN data : Conforms(c)} \ {"ma_don_hang"}
          IN  UpsertOrder(data, source) =>
                /\ \A k \in DOMAIN orders' : \A c \in DOMAIN orders'[k] : Conforms(c)
                /\ good = {} => (orders' = orders /\ response'.row = <<>>)
                /\ (good # {} /\ source = "web")
                     => /\ response'.row # <<>>
                        /\ \A c \in good : orders'["DH001"][c] = data[c]]_vars

\* A call with a conforming and a non-conforming field wrote the row without
\* the non-conforming one.
C29_Witness ==
    /\ response.op = "upsertOrderCall"
    /\ response.row # <<>>
    /\ "Ghi chu moi" \in DOMAIN response.orderData
    /\ "DH001" \in DOMAIN orders
    /\ orders["DH001"]["trang_thai_giao_hang_nb"] = "Da giao"
    /\ "Ghi chu moi" \notin DOMAIN orders["DH001"]

\* The internal name the mapping table gives for a field name.
Translation(name) ==
    IF name \in DOMAIN sheetToDbMapping THEN sheetToDbMapping[name] ELSE name

\* C30 (as claimed): in the pending update an accepted enqueue creates, every
\* field whose name is a known label is stored under its internal name with
\* its value, and every other field under its own name with its value (for
\* field sets in which no two names translate to the same internal name).
C30_FieldsTranslated ==
    [][\A p \in FieldSets :
          (/\ QueueUpdate("DH001", p)
           /\ \A i, j \in DOMAIN p : i # j => Translation(p[i][1]) # Translation(p[j][1]))
          => /\ MapHas(queue', "DH001")
             /\ \A i \in DOMAIN p :
                   /\ Translation(p[i][1]) \in DOMAIN MapGet(queue', "DH001")
                   /\ MapGet(queue', "DH001")[Translation(p[i][1])] = p[i][2]]_vars

\* Each table leads every entry of the other back to where it came from,
\* and neither gives two entries the same translation.
TablesInverse ==
    /\ \A l \in DOMAIN sheetToDbMapping :
          /\ sheetToDbMapping[l] \in DOMAIN dbToSheetMapping
          /\ dbToSheetMapping[sheetToDbMapping[l]] = l
    /\ \A c \in DOMAIN dbToSheetMapping :
          /\ dbToSheetMapping[c] \in DOMAIN sheetToDbMapping
          /\ sheetToDbMapping[dbToSheetMapping[c]] = c
    /\ \A l1, l2 \in DOMAIN sheetToDbMapping :
          sheetToDbMapping[l1] = sheetToDbMapping[l2] => l1 = l2
    /\ \A c1, c2 \in DOMAIN dbToSheetMapping :
          dbToSheetMapping[c1] = dbToSheetMapping[c2] => c1 = c2

\* C31: the label table of enqueue and the column table of syncToSheet are
\* inverse bijections: every label's column leads back to the label and every
\* column's label back to the column, no two labels share a column and no two
\* columns a label.  Through the code: a labelled field that enqueue
\* translated is written to the document by syncToSheet under the same label
\* with the same value, and a column that syncToSheet wrote under its label
\* is translated by enqueue back to the same column with the same value (the
\* key column travels as primaryKey and is not part of the written fields).
C31_MappingsInverse ==
    [][/\ TablesInverse
       /\ \A l \in DOMAIN sheetToDbMapping \ {"Ma don hang"} :
             (/\ response'.op = "enqueue"
              /\ sheetToDbMapping[l] \in DOMAIN MapGet(queue', "DH001")
              /\ QueueUpdate("DH001", OneField(l))) =>
                sheetUpdate(orderDataOf(MapGet(queue', "DH001"))) = (l :> "x")
       /\ \A c \in DOMAIN dbToSheetMapping \ {"ma_don_hang"} :
             (/\ response'.op = "syncToSheetCall"
              /\ c \in DOMAIN response'.orderData
              /\ SyncToSheet(Spread(("ma_don_hang" :> "DH001"), (c :> "x")))) =>
                convertUpdates(ObjectEntries(response'.sheetUpdate)) = (c :> "x")]_vars

\* The pending update made from the field labelled "GHI CHU" was handed to
\* syncToSheet, which wrote it under "GHI CHU" and not under "Ghi chu".
C31_Witness ==
    /\ response.op = "syncToSheetCall"
    /\ "ghi_chu_chung" \in DOMAIN response.orderData
    /\ MapHas(queue, "DH001")
    /\ response.orderData = orderDataOf(MapGet(queue, "DH001"))
    /\ response.sheetUpdate = ("GHI CHU" :> "x")

\* The properties enqueue itself puts into a pending update.
OwnProperties == {"ma_don_hang", "_source", "_timestamp"}

\* C32: an accepted enqueue for a key that has a pending update leaves, in
\* the same place of the queue, an entry that has the incoming update's
\* translated fields with their values, its source and its timestamp, and
\* nothing else: every field that only the replaced update had is gone.  A
\* flush takes its batch from the queue as it is then, and a store write sets
\* only columns of the batch entry it is processing, to that entry's values.
C32_ReplacedFieldsDiscarded ==
    [][/\ \A p \in ReplaceSets, source \in {"web", "sheet"} :
             LET call == IF source = "web" THEN QueueUpdate("DH001", p)
                         ELSE WebhookSync("DH001", p)
                 c    == convertUpdates(p)
             IN  (/\ MapHas(queue, "DH001")
                  /\ requests' # requests
                  /\ call
                  /\ response'.result.queued)
                 => LET old == MapGet(queue, "DH001")
                        e   == MapGet(queue', "DH001")
                    IN  /\ Len(queue') = Len(queue)
                        /\ DOMAIN e = OwnProperties \cup DOMAIN c
                        /\ \A f \in DOMAIN c \ OwnProperties : e[f] = c[f]
                        /\ e["_source"] = source
                        /\ e["_timestamp"] = now
                        /\ \A f \in DOMAIN old \ (OwnProperties \cup DOMAIN c) :
                              f \notin DOMAIN e /\ f \in response'.dropped
       /\ Len(runs') > Len(runs) => runs'[Len(runs')].toProcess = queue
       /\ \A j \in DOMAIN runs :
             (orders' # orders /\ UpsertReturn(j)) =>
                LET e == CurrentUpdate(runs[j])
                IN  \A col \in DOMAIN orders'["DH001"] \ {"updated_at"} :
                       ("DH001" \notin DOMAIN orders
                        \/ col \notin DOMAIN orders["DH001"]
                        \/ orders'["DH001"][col] # orders["DH001"][col])
                       => col \in DOMAIN e /\ orders'["DH001"][col] = e[col]]_vars

\* A client write that sets the price replaced a pending update that set the
\* delivery status: the pending update no longer has the status.
C32_Witness ==
    /\ response.op = "enqueue"
    /\ response.result.queued
    /\ "trang_thai_giao_hang_nb" \in response.dropped
    /\ MapHas(queue, "DH001")
    /\ "gia_ban" \in DOMAIN MapGet(queue, "DH001")
    /\ "trang_thai_giao_hang_nb" \notin DOMAIN MapGet(queue, "DH001")

\* C33: a call of enqueue returns its verdict in the step in which it is
\* made, whether or not a flush is in progress, and starts none; it leaves
\* the store, the locks, the in-progress flag, the running flush and its
\* batch, the version tracker and the hub as they are, and every pending
\* entry of another key stays in its place, unchanged.
C33_EnqueueTouchesOwnSlotOnly ==
    [][\A k \in Keys, p \in Payloads \cup SheetPayloads :
          (/\ requests' # requests
           /\ QueueUpdate(k, p) \/ WebhookSync(k, p))
          => /\ response'.op = "enqueue"
             /\ response'.key = k
             /\ response'.result.queued \in BOOLEAN
             /\ orders' = orders
             /\ syncLocks' = syncLocks
             /\ isProcessing' = isProcessing
             /\ runs' = runs
             /\ <<versionMap, lastChangeTimestamp, pendingChanges>>' =
                   <<versionMap, lastChangeTimestamp, pendingChanges>>
             /\ <<clients, stats, conns>>' = <<clients, stats, conns>>
             /\ MapKeys(queue') \ {k} = MapKeys(queue) \ {k}
             /\ \A i \in DOMAIN queue : queue[i].key # k => queue'[i] = queue[i]
             /\ ~response'.result.queued => queue' = queue]_vars

\* An update was accepted while a flush was writing the other key to the
\* store: the flush still holds its batch, the flag is still set, and the
\* new update is the only pending one.
C33_Witness ==
    /\ response.op = "enqueue"
    /\ response.result.queued
    /\ isProcessing
    /\ Len(runs) = 1
    /\ runs[1].pc = "upsertOrder"
    /\ MapKeys(runs[1].toProcess) = Keys \ {response.key}
    /\ MapKeys(queue) = {response.key}

\* C34: the flush of a sheet-sourced update goes from its store write to the
\* next update without calling syncToSheet and leaves the lock map as it is;
\* every update a flush is mirroring is web-sourced and its row is in the
\* store; the lock map changes only when such a mirror call returns, and
\* then only in the entry of that update's key.  So every lock in the map
\* belongs to a key whose row a web-sourced flush has written.
C34_OnlyAppliedWebFlushArmsLock ==
    [][/\ \A j \in DOMAIN runs :
             (/\ runs[j].pc = "upsertOrder"
              /\ CurrentUpdate(runs[j])["_source"] = "sheet"
              /\ UpsertReturn(j) \/ UpsertThrows(j))
             => /\ syncLocks' = syncLocks
                /\ \A i \in DOMAIN runs' : runs'[i].pc = "syncToSheet" => runs[i] = runs'[i]
       /\ \A j \in DOMAIN runs' :
             runs'[j].pc = "syncToSheet"
             => /\ CurrentUpdate(runs'[j])["_source"] = "web"
                /\ CurrentUpdate(runs'[j])["ma_don_hang"] \in DOMAIN orders'
       /\ syncLocks' # syncLocks
             => \E j \in DOMAIN runs :
                   LET k == CurrentUpdate(runs[j])["ma_don_hang"]
                   IN  /\ runs[j].pc = "syncToSheet"
                       /\ MirrorReturn(j)
                       /\ CurrentUpdate(runs[j])["_source"] = "web"
                       /\ k \in DOMAIN orders
                       /\ syncLocks'[k] = now + LOCK_WINDOW_MS
                       /\ \A o \in DOMAIN syncLocks' \ {k} :
                             o \in DOMAIN syncLocks /\ syncLocks'[o] = syncLocks[o]
       /\ \A k \in DOMAIN syncLocks' : k \in DOMAIN orders']_vars

\* A sheet-sourced update was written to the store by a flush that then
\* ended, while the lock of its key, armed by an earlier web-sourced flush,
\* had expired and was not renewed.
C34_Witness ==
    /\ response.op = "upsertOrder"
    /\ response.entry.value["_source"] = "sheet"
    /\ response.dbResult
    /\ runs = <<>>
    /\ response.entry.key \in DOMAIN syncLocks
    /\ syncLocks[response.entry.key] <= now

\* The store writes for a key that have been issued and have not settled
\* (upsertOrder sends no statement for an object without a column to set).
WritesInFlight(k) ==
    {j \in DOMAIN runs :
        /\ runs[j].pc \in {"upsertOrder", "handleSheetChange"}
        /\ CurrentUpdate(runs[j])["ma_don_hang"] = k
        /\ validColumns(orderDataOf(CurrentUpdate(runs[j]))) \ {"ma_don_hang"} # {}}

\* C35 (as claimed): at no time are two store writes for the same key in
\* flight, whatever the interleaving of timer flushes, forced flushes and
\* inbound change notifications.
C35_OneStoreWriteInFlightPerKey ==
    \A k \in Keys : Cardinality(WritesInFlight(k)) <= 1

\* C36 (as claimed): a connection that has been subscribed and is no longer
\* in the registry (its request closed, or a write to it failed in a
\* broadcast) is not written to again: no change event and no heartbeat.
C36_NoWriteAfterDestroy ==
    [][\A c \in DOMAIN conns :
          c \notin clientSetOf(clients, conns[c].sheetName)
          => /\ conns'[c].writes = conns[c].writes
             /\ conns'[c].beats = conns[c].beats]_vars

\* The largest version among the changes a poll returned.
LargestVersion(changes) ==
    CHOOSE v \in {changes[i]["_version"] : i \in DOMAIN changes} :
        \A i \in DOMAIN changes : changes[i]["_version"] <= v

\* C37 (as claimed): a client whose last poll of a sheet returned changes
\* polls next with the largest version it received; a change recorded for
\* the sheet after that poll is among the changes the next poll returns, also
\* when it is recorded in the clock instant of the last change received.
C37_PollNeverMisses ==
    [][\A d \in ChangeData :
          (/\ response.op = "getChangesSince"
           /\ response.sheetName = d.sheetName
           /\ response.changes # <<>>
           /\ RecordExternalChange(d))
          => LET buffer   == changesOf(pendingChanges', d.sheetName)
                 recorded == buffer[Len(buffer)]
                 next     == getChangesSince(pendingChanges', d.sheetName,
                                             LargestVersion(response.changes))
             IN  \E i \in DOMAIN next : next[i] = recorded]_vars

\* C38 (as claimed): every pending update, in the queue or in the batch of a
\* flush, carries in ma_don_hang the key it is stored under, whatever the
\* field set of the request; so when every request is for DH001, the store
\* has rows and the lock map has locks for DH001 only.
C38_EntryCarriesItsKey ==
    /\ \A i \in DOMAIN queue : queue[i].value["ma_don_hang"] = queue[i].key
    /\ \A j \in DOMAIN runs : \A i \in DOMAIN runs[j].toProcess :
          runs[j].toProcess[i].value["ma_don_hang"] = runs[j].toProcess[i].key
    /\ DOMAIN orders \subseteq {"DH001"}
    /\ DOMAIN syncLocks \subseteq {"DH001"}

\* C39 (as claimed): after every step of the hub activeConnections is the
\* number of connections in the registry, over all sheets, and not negative;
\* totalConnections and messagesSent never decrease.
C39_ActiveCountMatchesRegistry ==
    [][/\ stats'.activeConnections = Cardinality(UNION {clients'[s] : s \in DOMAIN clients'})
       /\ stats'.activeConnections >= 0
       /\ stats'.totalConnections >= stats.totalConnections
       /\ stats'.messagesSent >= stats.messagesSent]_vars

\* The lock entry of a key: its expiry, or 0 when the map has none.
LockOf(locks, k) == IF k \in DOMAIN locks THEN locks[k] ELSE 0

\* C40: a mirror call that throws leaves the lock map as it is; as long as a
\* mirror call is in flight (it was just issued, or it is still awaited after
\* this step, whether or not its write has reached the document) the lock of
\* its key is what it was before; the lock is armed in the step in which the
\* call returns, for one window from that instant.
C40_LockArmedAfterMirrorCompletes ==
    [][/\ \A j \in DOMAIN runs :
             (runs[j].pc = "syncToSheet" /\ MirrorThrows(j)) => syncLocks' = syncLocks
       /\ \A j \in DOMAIN runs' :
             runs'[j].pc = "syncToSheet"
             => LET k == CurrentUpdate(runs'[j])["ma_don_hang"]
                IN  LockOf(syncLocks', k) = LockOf(syncLocks, k)
       /\ \A j \in DOMAIN runs :
             (runs[j].pc = "syncToSheet" /\ MirrorReturn(j))
             => LockOf(syncLocks', CurrentUpdate(runs[j])["ma_don_hang"]) = now + LOCK_WINDOW_MS]_vars

\* The mirror call of a key failed after its write had reached the document;
\* the key has no lock, and the notification of that write is still on its
\* way.
C40_Witness ==
    /\ response.op = "syncToSheet"
    /\ ~response.ok
    /\ response.key \notin DOMAIN syncLocks
    /\ \E e \in echoes : e.primaryKey = response.key
    /\ response.key \in DOMAIN orders

====
